---- MODULE Spec2Model ----
(***************************************************************************)
(* Model of the Yul optimiser's data flow analysis:                        *)
(*   InvertibleMap, InvalidationChecker, MovableChecker, KnowledgeBase and *)
(*   DataFlowAnalyzer.                                                     *)
(***************************************************************************)
EXTENDS Integers, Sequences, FiniteSets, TLC

\* ------------------------------------------------------------------------
\* Bounds
\* ------------------------------------------------------------------------
\* Number of variable names (YulString); names are 1..NumVars and their
\* numeric order is the order of std::set<YulString> / std::map iteration.
NumVars == 3
\* Number of operations applied to one InvertibleMap.
MaxMapOps == 4
\* Number of statements of the analysed program, nested ones included.
MaxStmts == 4
\* Number of statements of a nested block.
MaxBody == 2

Vars == 1..NumVars

\* ------------------------------------------------------------------------
\* std::map<K, V> as a function whose domain is the set of present keys
\* ------------------------------------------------------------------------
EmptyMap == [k \in {} |-> {}]
Has(m, k) == k \in DOMAIN m
Put(m, k, v) == [x \in (DOMAIN m) \cup {k} |-> IF x = k THEN v ELSE m[x]]
Del(m, k) == [x \in (DOMAIN m) \ {k} |-> m[x]]
\* m[k] of a std::map<K, std::set<K>>: a missing key is created empty
Touch(m, k) == IF Has(m, k) THEN m ELSE Put(m, k, {})
Get(m, k) == IF Has(m, k) THEN m[k] ELSE {}

\* ------------------------------------------------------------------------
\* InvertibleMap
\* ------------------------------------------------------------------------
EmptyInvertibleMap == [values |-> EmptyMap, references |-> EmptyMap]

\* a set() that leaves the old value's reverse entry in place
DropReverseKeep(m, key) == m.references

\* references[values[_key]].erase(_key), done when _key is present
DropReverse(m, key) ==
    IF Has(m.values, key)
    THEN Put(m.references, m.values[key], Get(m.references, m.values[key]) \ {key})
    ELSE m.references

InvertibleMap_set(m, key, value) ==
    LET r1 == DropReverse(m, key)
    IN  [values |-> Put(m.values, key, value),
         references |-> Put(r1, value, Get(r1, value) \cup {key})]

\* an eraseKey() that erases nothing
InvertibleMap_eraseKey_noop(m, key) == m

InvertibleMap_eraseKey(m, key) ==
    [values |-> Del(m.values, key), references |-> DropReverse(m, key)]

\* an eraseValue() that erases nothing
InvertibleMap_eraseValue_noop(m, value) == m

InvertibleMap_eraseValue(m, value) ==
    IF Has(m.references, value)
    THEN [values |-> [k \in (DOMAIN m.values) \ m.references[value] |-> m.values[k]],
          references |-> Del(m.references, value)]
    ELSE m

InvertibleMap_clear(m) == EmptyInvertibleMap

\* ------------------------------------------------------------------------
\* Expressions (AsmData.h): Literal, Identifier, FunctionCall,
\* FunctionalInstruction.  One record shape for all of them.
\* ------------------------------------------------------------------------
NoExpr == [kind |-> "None", name |-> 0, value |-> 0, fn |-> "", args |-> <<>>]
Literal(n) == [kind |-> "Literal", name |-> 0, value |-> n, fn |-> "", args |-> <<>>]
Identifier(x) == [kind |-> "Identifier", name |-> x, value |-> 0, fn |-> "", args |-> <<>>]
FunctionCall(f, as) == [kind |-> "FunctionCall", name |-> 0, value |-> 0, fn |-> f, args |-> as]
FunctionalInstruction(f, as) ==
    [kind |-> "FunctionalInstruction", name |-> 0, value |-> 0, fn |-> f, args |-> as]

\* Dialect::builtin / eth::SemanticInformation: the capability flags of the
\* recognized operations.  Every other function name is a user function.
BuiltinNames == {"add", "pop", "sload", "sstore", "stop"}
BuiltinFunction(f) ==
    CASE f = "add"    -> [movable |-> TRUE,  sideEffectFree |-> TRUE,  invalidatesStorage |-> FALSE]
      [] f = "pop"    -> [movable |-> TRUE,  sideEffectFree |-> TRUE,  invalidatesStorage |-> FALSE]
      [] f = "sload"  -> [movable |-> FALSE, sideEffectFree |-> TRUE,  invalidatesStorage |-> FALSE]
      [] f = "sstore" -> [movable |-> FALSE, sideEffectFree |-> FALSE, invalidatesStorage |-> TRUE]
      [] f = "stop"   -> [movable |-> FALSE, sideEffectFree |-> FALSE, invalidatesStorage |-> FALSE]
IsBuiltin(f) == f \in BuiltinNames

\* ------------------------------------------------------------------------
\* MovableChecker (Semantics.cpp)
\* ------------------------------------------------------------------------
MovableCheckerInit ==
    [m_movable |-> TRUE, m_sideEffectFree |-> TRUE, m_invalidatesStorage |-> FALSE,
     m_variableReferences |-> {}]

\* a checker that takes an unrecognized function for a harmless one
MovableChecker_flags_optimistic(mc, f) ==
    IF IsBuiltin(f)
    THEN [mc EXCEPT !.m_movable = mc.m_movable /\ BuiltinFunction(f).movable,
                    !.m_sideEffectFree = mc.m_sideEffectFree /\ BuiltinFunction(f).sideEffectFree,
                    !.m_invalidatesStorage =
                        mc.m_invalidatesStorage \/ BuiltinFunction(f).invalidatesStorage]
    ELSE mc

MovableChecker_flags(mc, f) ==
    IF IsBuiltin(f)
    THEN [mc EXCEPT !.m_movable = mc.m_movable /\ BuiltinFunction(f).movable,
                    !.m_sideEffectFree = mc.m_sideEffectFree /\ BuiltinFunction(f).sideEffectFree,
                    !.m_invalidatesStorage =
                        mc.m_invalidatesStorage \/ BuiltinFunction(f).invalidatesStorage]
    ELSE [mc EXCEPT !.m_movable = FALSE, !.m_sideEffectFree = FALSE,
                    !.m_invalidatesStorage = TRUE]

RECURSIVE MovableChecker_visit(_, _)
RECURSIVE MovableChecker_visitArgs(_, _, _)

\* ASTWalker: the arguments of a call, one after the other
MovableChecker_visitArgs(mc, args, i) ==
    IF i > Len(args) THEN mc
    ELSE MovableChecker_visitArgs(MovableChecker_visit(mc, args[i]), args, i + 1)

MovableChecker_visit(mc, e) ==
    CASE e.kind = "Identifier" ->
            [mc EXCEPT !.m_variableReferences = mc.m_variableReferences \cup {e.name}]
      [] e.kind \in {"FunctionCall", "FunctionalInstruction"} ->
            MovableChecker_flags(MovableChecker_visitArgs(mc, e.args, 1), e.fn)
      [] OTHER -> mc

MovableChecker(e) == MovableChecker_visit(MovableCheckerInit, e)

\* ------------------------------------------------------------------------
\* InvalidationChecker (Semantics.cpp)
\* ------------------------------------------------------------------------
\* operator()(FunctionalInstruction const&), operator()(FunctionCall const&):
\* the flag of the called operation; the arguments are not walked.
InvalidationChecker_call(e) ==
    IF IsBuiltin(e.fn) THEN BuiltinFunction(e.fn).invalidatesStorage ELSE TRUE

InvalidationChecker_visit(e) ==
    CASE e.kind \in {"FunctionCall", "FunctionalInstruction"} -> InvalidationChecker_call(e)
      [] OTHER -> FALSE

\* invalidatesStorage(Dialect const&, Expression const&)
invalidatesStorage(e) == InvalidationChecker_visit(e)

\* ------------------------------------------------------------------------
\* Statements (AsmData.h).  One record shape for all of them:
\*   names   variableNames of an Assignment, variables of a
\*           VariableDeclaration
\*   expr    value, condition or switch expression (NoExpr when absent)
\*   body    body of If / ForLoop / FunctionDefinition, statements of Block
\*   pre, post   of a ForLoop;  cases   the case bodies of a Switch
\*   parameters, returnVariables   of a FunctionDefinition
\* ------------------------------------------------------------------------
Stmt(k, ns, e, b) ==
    [kind |-> k, names |-> ns, expr |-> e, body |-> b, pre |-> <<>>, post |-> <<>>,
     cases |-> <<>>, parameters |-> {}, returnVariables |-> <<>>]
ExpressionStatement(e) == Stmt("ExpressionStatement", {}, e, <<>>)
Assignment(ns, e) == Stmt("Assignment", ns, e, <<>>)
VariableDeclaration(ns, e) == Stmt("VariableDeclaration", ns, e, <<>>)
If(c, b) == Stmt("If", {}, c, b)
Block(b) == Stmt("Block", {}, NoExpr, b)
Break == Stmt("Break", {}, NoExpr, <<>>)
Continue == Stmt("Continue", {}, NoExpr, <<>>)
Switch(e, cs) == [Stmt("Switch", {}, e, <<>>) EXCEPT !.cases = cs]
ForLoop(pr, c, po, b) == [Stmt("ForLoop", {}, c, b) EXCEPT !.pre = pr, !.post = po]
FunctionDefinition(ps, rs, b) ==
    [Stmt("FunctionDefinition", {}, NoExpr, b) EXCEPT !.parameters = ps, !.returnVariables = rs]

\* ------------------------------------------------------------------------
\* InvalidationChecker over a Block: the ASTWalker reaches every expression
\* that is a statement's value, condition or switch expression.
\* ------------------------------------------------------------------------
RECURSIVE InvalidationChecker_statement(_)
RECURSIVE InvalidationChecker_statements(_, _)

InvalidationChecker_statements(ss, i) ==
    IF i > Len(ss) THEN FALSE
    ELSE InvalidationChecker_statement(ss[i]) \/ InvalidationChecker_statements(ss, i + 1)

InvalidationChecker_statement(s) ==
    \/ InvalidationChecker_visit(s.expr)
    \/ InvalidationChecker_statements(s.pre, 1)
    \/ InvalidationChecker_statements(s.body, 1)
    \/ InvalidationChecker_statements(s.post, 1)
    \/ \E c \in DOMAIN s.cases : InvalidationChecker_statements(s.cases[c], 1)

\* invalidatesStorage(Dialect const&, Block const&)
invalidatesStorageBlock(ss) == InvalidationChecker_statements(ss, 1)

\* ------------------------------------------------------------------------
\* TerminationFinder (Semantics.cpp).  dialect is "evm" for an EVMDialect and
\* "other" for any other dialect (the dynamic_cast of isTerminatingBuiltin).
\* ------------------------------------------------------------------------
\* eth::SemanticInformation::terminatesControlFlow
terminatesControlFlow(instruction) == instruction \in {"stop"}

\* every builtin of the EVM dialect of the model stands for an instruction
isTerminatingBuiltin(dialect, exprStmnt) ==
    IF exprStmnt.expr.kind = "FunctionalInstruction"
    THEN terminatesControlFlow(exprStmnt.expr.fn)
    ELSE /\ exprStmnt.expr.kind = "FunctionCall"
         /\ dialect = "evm"
         /\ IsBuiltin(exprStmnt.expr.fn)
         /\ terminatesControlFlow(exprStmnt.expr.fn)

\* a classification that looks into the body of a conditional
controlFlowKind_conditional(dialect, statement) ==
    IF statement.kind = "ExpressionStatement" /\ isTerminatingBuiltin(dialect, statement)
    THEN "Terminate"
    ELSE IF statement.kind = "Break" \/ (statement.kind = "If" /\ statement.body = <<Break>>)
    THEN "Break"
    ELSE IF statement.kind = "Continue" THEN "Continue"
    ELSE "FlowOut"

controlFlowKind(dialect, statement) ==
    IF statement.kind = "ExpressionStatement" /\ isTerminatingBuiltin(dialect, statement)
    THEN "Terminate"
    ELSE IF statement.kind = "Break" THEN "Break"
    ELSE IF statement.kind = "Continue" THEN "Continue"
    ELSE "FlowOut"

\* the loop of firstUnconditionalControlFlowChange from index i on; the
\* statement of index i is statements[i + 1], and -1 stands for size_t(-1)
RECURSIVE firstUnconditionalControlFlowChange_from(_, _, _)
firstUnconditionalControlFlowChange_from(dialect, statements, i) ==
    IF i >= Len(statements) THEN [kind |-> "FlowOut", index |-> -1]
    ELSE IF controlFlowKind(dialect, statements[i + 1]) # "FlowOut"
         THEN [kind |-> controlFlowKind(dialect, statements[i + 1]), index |-> i]
         ELSE firstUnconditionalControlFlowChange_from(dialect, statements, i + 1)

firstUnconditionalControlFlowChange(dialect, statements) ==
    firstUnconditionalControlFlowChange_from(dialect, statements, 0)

\* ------------------------------------------------------------------------
\* NameCollector: Assignments and AssignmentsSinceContinue
\* ------------------------------------------------------------------------
RECURSIVE Assignments_statement(_)
RECURSIVE Assignments(_)

\* the variables that are the target of an Assignment anywhere in a block
Assignments(ss) == UNION {Assignments_statement(ss[i]) : i \in DOMAIN ss}

Assignments_statement(s) ==
    (IF s.kind = "Assignment" THEN s.names ELSE {})
        \cup Assignments(s.pre) \cup Assignments(s.body) \cup Assignments(s.post)
        \cup UNION {Assignments(s.cases[c]) : c \in DOMAIN s.cases}

RECURSIVE AssignmentsSinceContinue_statement(_, _)
RECURSIVE AssignmentsSinceContinue_statements(_, _, _)

\* walker state: m_continueFound, m_names, m_forLoopDepth
AssignmentsSinceContinue_statements(w, ss, i) ==
    IF i > Len(ss) THEN w
    ELSE AssignmentsSinceContinue_statements(
             AssignmentsSinceContinue_statement(w, ss[i]), ss, i + 1)

AssignmentsSinceContinue_statement(w, s) ==
    CASE s.kind = "Continue" ->
            IF w.m_forLoopDepth = 0 THEN [w EXCEPT !.m_continueFound = TRUE] ELSE w
      [] s.kind = "Assignment" ->
            IF w.m_continueFound THEN [w EXCEPT !.m_names = w.m_names \cup s.names] ELSE w
      [] s.kind = "ForLoop" ->
            LET w0 == [w EXCEPT !.m_forLoopDepth = w.m_forLoopDepth + 1]
                w1 == AssignmentsSinceContinue_statements(w0, s.pre, 1)
                w2 == AssignmentsSinceContinue_statements(w1, s.body, 1)
                w3 == AssignmentsSinceContinue_statements(w2, s.post, 1)
            IN  [w3 EXCEPT !.m_forLoopDepth = w.m_forLoopDepth]
      [] s.kind = "Switch" ->
            LET RECURSIVE cs(_, _)
                cs(v, c) == IF c > Len(s.cases) THEN v
                            ELSE cs(AssignmentsSinceContinue_statements(v, s.cases[c], 1), c + 1)
            IN  cs(w, 1)
      [] OTHER -> AssignmentsSinceContinue_statements(w, s.body, 1)

AssignmentsSinceContinue(ss) ==
    AssignmentsSinceContinue_statements(
        [m_continueFound |-> FALSE, m_names |-> {}, m_forLoopDepth |-> 0], ss, 1).m_names

\* ------------------------------------------------------------------------
\* KnowledgeBase
\* ------------------------------------------------------------------------
\* u256 arithmetic of the rule list; the literals of the model are far
\* below the modulus, which is kept small enough for the checker's integers.
WordModulus == 2 ^ 16

\* the literal an Identifier stands for under the known values (one level)
KnownLiteral(value, e) ==
    e.kind = "Identifier" /\ Has(value, e.name) /\ value[e.name].kind = "Literal"
KnownLiteralValue(value, e) == value[e.name].value

\* the rules of the rule list that match sub(a, b) or eq(a, b) over two
\* identifiers: constant folding of known literals, sub(X, X) -> 0 and
\* eq(X, X) -> 1
RuleList == {"sub(A, B)", "eq(A, B)", "sub(X, X)", "eq(X, X)"}

\* KnowledgeBase::simplify with a rule database made of the rules named in
\* rules: SimplificationRules::findFirstMatch applied until no rule matches
simplifyWith(rules, value, e) ==
    LET a == e.args[1]
        b == e.args[2]
    IN  CASE /\ "sub(A, B)" \in rules
             /\ KnownLiteral(value, a) /\ KnownLiteral(value, b) /\ e.fn = "sub" ->
                Literal((KnownLiteralValue(value, a) - KnownLiteralValue(value, b)) % WordModulus)
          [] /\ "eq(A, B)" \in rules
             /\ KnownLiteral(value, a) /\ KnownLiteral(value, b) /\ e.fn = "eq" ->
                Literal(IF KnownLiteralValue(value, a) = KnownLiteralValue(value, b) THEN 1 ELSE 0)
          [] "sub(X, X)" \in rules /\ a = b /\ e.fn = "sub" -> Literal(0)
          [] "eq(X, X)" \in rules /\ a = b /\ e.fn = "eq" -> Literal(1)
          [] OTHER -> e

\* KnowledgeBase::simplify with the rule list of the optimiser
simplify(value, e) == simplifyWith(RuleList, value, e)

\* an answer that takes the literal zero for a proof of difference
knownToBeDifferentWith_zero(rules, value, a, b) ==
    LET expr1 == simplifyWith(rules, value, FunctionCall("sub", <<Identifier(a), Identifier(b)>>))
        expr2 == simplifyWith(rules, value, FunctionCall("eq", <<Identifier(a), Identifier(b)>>))
    IN  IF expr1.kind = "Literal" THEN expr1.value = 0
        ELSE IF expr2.kind = "Literal" THEN expr2.value = 0
        ELSE FALSE

\* KnowledgeBase::knownToBeDifferent over a rule database
knownToBeDifferentWith(rules, value, a, b) ==
    LET expr1 == simplifyWith(rules, value, FunctionCall("sub", <<Identifier(a), Identifier(b)>>))
        expr2 == simplifyWith(rules, value, FunctionCall("eq", <<Identifier(a), Identifier(b)>>))
    IN  IF expr1.kind = "Literal" THEN expr1.value # 0
        ELSE IF expr2.kind = "Literal" THEN expr2.value = 0
        ELSE FALSE

knownToBeDifferent(value, a, b) == knownToBeDifferentWith(RuleList, value, a, b)

knownToBeEqual(value, a, b) == a = b

\* ------------------------------------------------------------------------
\* DataFlowAnalyzer: the analysis state as a record, so that the handlers
\* can be composed.  log is the history of the points the traversal passed.
\* ------------------------------------------------------------------------
Min(S) == CHOOSE x \in S : \A y \in S : x <= y

Snap(st) ==
    [m_value |-> st.m_value, m_references |-> st.m_references,
     m_referencedBy |-> st.m_referencedBy, m_storage |-> st.m_storage,
     m_variableScopes |-> st.m_variableScopes]

LogEntry(at, path, node, pre, post) ==
    [at |-> at, path |-> path, node |-> node, pre |-> Snap(pre), post |-> Snap(post)]
Logged(st, at, path, node, pre, post) ==
    [st EXCEPT !.log = Append(@, LogEntry(at, path, node, pre, post))]

\* assertThrow(false, OptimizerException, ""): the traversal is abandoned
Throw(st) == [st EXCEPT !.failed = TRUE]

clearValues_collect_none(variables, referencedBy, name) ==
    [variables |-> variables, m_referencedBy |-> referencedBy]

\* clearValues, first loop: a walk in name order over _variables, which
\* grows while it is walked; m_referencedBy[name] creates a missing entry.
RECURSIVE clearValues_collect(_, _, _)
clearValues_collect(variables, referencedBy, name) ==
    LET rb == Touch(referencedBy, name)
        vs == variables \cup rb[name]
        rest == {v \in vs : v > name}
    IN  IF rest = {} THEN [variables |-> vs, m_referencedBy |-> rb]
        ELSE clearValues_collect(vs, rb, Min(rest))

\* clearValues, the body of the last loop for one name
clearValues_entry(st, name) ==
    LET refs == Touch(st.m_references, name)
        rb == [r \in (DOMAIN st.m_referencedBy) \cup refs[name] |->
                  IF r \in refs[name] THEN Get(st.m_referencedBy, r) \ {name}
                  ELSE st.m_referencedBy[r]]
    IN  [st EXCEPT !.m_references = Put(refs, name, {}),
                   !.m_referencedBy = rb,
                   !.m_storage = InvertibleMap_eraseValue(
                                     InvertibleMap_eraseKey(st.m_storage, name), name)]

RECURSIVE clearValues_entries(_, _)
clearValues_entries(st, names) ==
    IF names = {} THEN st
    ELSE clearValues_entries(clearValues_entry(st, Min(names)), names \ {Min(names)})

\* clearValues after its first loop: c holds the grown _variables and
\* m_referencedBy
clearValues_erase(st, c) ==
    clearValues_entries(
        [st EXCEPT !.m_referencedBy = c.m_referencedBy,
                   !.m_value = [x \in (DOMAIN st.m_value) \ c.variables |-> st.m_value[x]]],
        c.variables)

clearValues(st, variables) ==
    clearValues_erase(st, IF variables = {}
                          THEN [variables |-> {}, m_referencedBy |-> st.m_referencedBy]
                          ELSE clearValues_collect(variables, st.m_referencedBy, Min(variables)))

\* a last loop that does not record who reads the referenced variables
handleAssignment_entry_forward(st, name, referencedVariables) ==
    [st EXCEPT !.m_references = Put(st.m_references, name, referencedVariables),
               !.m_storage = InvertibleMap_eraseValue(
                                 InvertibleMap_eraseKey(st.m_storage, name), name)]

\* a last loop that records no reference at all
handleAssignment_entry_noReferences(st, name, referencedVariables) ==
    [st EXCEPT !.m_references = Put(st.m_references, name, {}),
               !.m_storage = InvertibleMap_eraseValue(
                                 InvertibleMap_eraseKey(st.m_storage, name), name)]

\* handleAssignment, the body of the last loop for one name
handleAssignment_entry(st, name, referencedVariables) ==
    LET rb == [r \in (DOMAIN st.m_referencedBy) \cup referencedVariables |->
                  IF r \in referencedVariables THEN Get(st.m_referencedBy, r) \cup {name}
                  ELSE st.m_referencedBy[r]]
    IN  [st EXCEPT !.m_references = Put(st.m_references, name, referencedVariables),
                   !.m_referencedBy = rb,
                   !.m_storage = InvertibleMap_eraseValue(
                                     InvertibleMap_eraseKey(st.m_storage, name), name)]

RECURSIVE handleAssignment_entries(_, _, _)
handleAssignment_entries(st, names, referencedVariables) ==
    IF names = {} THEN st
    ELSE handleAssignment_entries(
             handleAssignment_entry(st, Min(names), referencedVariables),
             names \ {Min(names)}, referencedVariables)

zero == Literal(0)

\* a record that does not look for the target among the variables read
handleAssignment_value_selfReference(value, variables, e, movableChecker) ==
    IF e = NoExpr
    THEN [x \in (DOMAIN value) \cup variables |-> IF x \in variables THEN zero ELSE value[x]]
    ELSE IF Cardinality(variables) = 1 /\ movableChecker.m_movable
         THEN Put(value, Min(variables), e)
         ELSE value

\* the value recorded for the targets of an assignment
handleAssignment_value(value, variables, e, movableChecker) ==
    IF e = NoExpr
    THEN [x \in (DOMAIN value) \cup variables |-> IF x \in variables THEN zero ELSE value[x]]
    ELSE IF Cardinality(variables) = 1
            /\ movableChecker.m_movable
            /\ variables \cap movableChecker.m_variableReferences = {}
         THEN Put(value, Min(variables), e)
         ELSE value

\* handleAssignment after clearValues(_variables) and the MovableChecker
handleAssignment_record(s1, variables, e, movableChecker) ==
    handleAssignment_entries(
        [s1 EXCEPT !.m_value = handleAssignment_value(@, variables, e, movableChecker)],
        variables, movableChecker.m_variableReferences)

handleAssignment(st, variables, e) ==
    handleAssignment_record(clearValues(st, variables), variables, e,
                            IF e # NoExpr THEN MovableChecker(e) ELSE MovableCheckerInit)

pushScope(st, functionScope) ==
    [st EXCEPT !.m_variableScopes = Append(@, [variables |-> {}, isFunction |-> functionScope])]

popScope_keep(st) == [st EXCEPT !.m_variableScopes = SubSeq(@, 1, Len(@) - 1)]

\* a popScope that forgets the variables of the scope and leaves it on the stack
popScope_clearOnly(st) ==
    clearValues(st, st.m_variableScopes[Len(st.m_variableScopes)].variables)

popScope(st) ==
    LET s1 == clearValues(st, st.m_variableScopes[Len(st.m_variableScopes)].variables)
    IN  [s1 EXCEPT !.m_variableScopes = SubSeq(@, 1, Len(@) - 1)]

\* m_variableScopes.back().variables += names
declare(st, names) ==
    [st EXCEPT !.m_variableScopes[Len(st.m_variableScopes)].variables = @ \cup names]

clearStorageKnowledgeIfInvalidated_never(st, e) == st

clearStorageKnowledgeIfInvalidated(st, e) ==
    IF invalidatesStorage(e) THEN [st EXCEPT !.m_storage = InvertibleMap_clear(@)] ELSE st

clearStorageKnowledgeIfInvalidatedBlock(st, ss) ==
    IF invalidatesStorageBlock(ss) THEN [st EXCEPT !.m_storage = InvertibleMap_clear(@)] ELSE st

RECURSIVE eraseKeys(_, _)
eraseKeys(m, keys) ==
    IF keys = {} THEN m
    ELSE eraseKeys(InvertibleMap_eraseKey(m, Min(keys)), keys \ {Min(keys)})

joinStorageKnowledge_keep(st, other) == st

joinStorageKnowledge(st, other) ==
    LET keysToErase == {k \in DOMAIN st.m_storage.values :
                           ~Has(other.values, k) \/ other.values[k] # st.m_storage.values[k]}
    IN  [st EXCEPT !.m_storage = eraseKeys(@, keysToErase)]

\* a walk that does not stop at a function scope
inScope_from_anywhere(scopes, i, variableName) ==
    \E j \in 1..i : variableName \in scopes[j].variables

\* the loop of inScope over the scopes i, i - 1, ..., 1
RECURSIVE inScope_from(_, _, _)
inScope_from(scopes, i, variableName) ==
    IF i = 0 THEN FALSE
    ELSE IF variableName \in scopes[i].variables THEN TRUE
    ELSE IF scopes[i].isFunction THEN FALSE
    ELSE inScope_from(scopes, i - 1, variableName)

inScope(st, variableName) ==
    inScope_from(st.m_variableScopes, Len(st.m_variableScopes), variableName)

isSimpleSStore(s) ==
    /\ s.expr.kind = "FunctionCall"
    /\ IsBuiltin(s.expr.fn)
    /\ s.expr.fn = "sstore"
    /\ s.expr.args[1].kind = "Identifier"
    /\ s.expr.args[2].kind = "Identifier"

\* ------------------------------------------------------------------------
\* DataFlowAnalyzer: the handlers.  path is the position of the visited
\* node: the statement i of the block b of the node at p is at p \o <<b, i>>.
\* ------------------------------------------------------------------------
RECURSIVE visit(_, _, _)
RECURSIVE walkStatements(_, _, _, _)
RECURSIVE visitBlock(_, _, _)
RECURSIVE visitCases(_, _, _, _, _)

\* ASTModifier::operator()(Block&): the statements in order
walkStatements(st, ss, i, path) ==
    IF i > Len(ss) \/ st.failed THEN st
    ELSE walkStatements(visit(st, ss[i], path \o <<i>>), ss, i + 1, path)

\* operator()(Block&): the end, left being the state after popScope()
visitBlock_leave(numScopes, s1, left, ss, path) ==
    IF s1.failed THEN s1
    ELSE IF numScopes = Len(left.m_variableScopes)
         THEN Logged(left, "Block", path, Block(ss), s1, left)
         ELSE Throw(Logged(left, "Block", path, Block(ss), s1, left))

\* operator()(Block&) after the statements
visitBlock_walked(numScopes, s1, ss, path) ==
    visitBlock_leave(numScopes, s1, popScope(s1), ss, path)

\* operator()(Block&); the history gets the state the block is entered in
visitBlock(st, ss, path) ==
    visitBlock_walked(Len(st.m_variableScopes),
                      walkStatements(pushScope(Logged(st, "BlockStart", path, Block(ss), st, st),
                                               FALSE),
                                     ss, 1, path),
                      ss, path)

\* operator()(ExpressionStatement&)
visitExpressionStatement(st, s) ==
    IF isSimpleSStore(s)
    THEN LET key == s.expr.args[1].name
             value == s.expr.args[2].name
             m1 == InvertibleMap_set(st.m_storage, key, value)
             keysToErase == {k \in DOMAIN m1.values :
                                ~(\/ knownToBeDifferent(st.m_value, key, k)
                                  \/ knownToBeEqual(st.m_value, value, m1.values[k]))}
         IN  [st EXCEPT !.m_storage = eraseKeys(m1, keysToErase)]
    ELSE clearStorageKnowledgeIfInvalidated(st, s.expr)

\* an operator()(Assignment&) that takes a missing value as a declaration does
visitAssignment_lenient(st, s, path) ==
    handleAssignment(IF s.expr # NoExpr THEN clearStorageKnowledgeIfInvalidated(st, s.expr)
                     ELSE st,
                     s.names, s.expr)

\* operator()(Assignment&); the history gets the state the error is raised in
visitAssignment(st, s, path) ==
    IF s.expr = NoExpr THEN Throw(Logged(st, "Throw", path, s, st, st))
    ELSE handleAssignment(clearStorageKnowledgeIfInvalidated(st, s.expr), s.names, s.expr)

\* operator()(VariableDeclaration&)
visitVariableDeclaration(st, s) ==
    LET s1 == declare(st, s.names)
        s2 == IF s.expr # NoExpr THEN clearStorageKnowledgeIfInvalidated(s1, s.expr) ELSE s1
    IN  handleAssignment(s2, s.names, s.expr)

\* operator()(If&)
\* operator()(If&) after the branch: s1 is the state the snapshot was taken
\* in, s2 the state at the end of the branch
visitIf_join(s1, s2, s, path) ==
    IF s2.failed THEN s2
    ELSE clearValues(joinStorageKnowledge(Logged(s2, "IfJoin", path, s, s1, s2), s1.m_storage),
                     Assignments(s.body))

\* operator()(If&) from the snapshot on
visitIf_body(s1, s, path) == visitIf_join(s1, visitBlock(s1, s.body, path \o <<1>>), s, path)

\* operator()(If&)
visitIf(st, s, path) == visitIf_body(clearStorageKnowledgeIfInvalidated(st, s.expr), s, path)

\* a first loop that leaves the values of the variables assigned in the case
visitCases_join_keepValues(st, s1, s, c, assignedVariables, path) ==
    IF s1.failed THEN [st |-> s1, assignedVariables |-> assignedVariables]
    ELSE visitCases(clearStorageKnowledgeIfInvalidatedBlock(
                        joinStorageKnowledge(s1, st.m_storage), s.cases[c]),
                    s, c + 1, assignedVariables \cup Assignments(s.cases[c]), path)

\* operator()(Switch&), the first loop from case c on
\* the body of the first loop after the case block: st is the state the
\* snapshot was taken in, s1 the state at the end of the case
visitCases_join(st, s1, s, c, assignedVariables, path) ==
    IF s1.failed THEN [st |-> s1, assignedVariables |-> assignedVariables]
    ELSE visitCases(clearStorageKnowledgeIfInvalidatedBlock(
                        clearValues(joinStorageKnowledge(s1, st.m_storage),
                                    Assignments(s.cases[c])),
                        s.cases[c]),
                    s, c + 1, assignedVariables \cup Assignments(s.cases[c]), path)

visitCases(st, s, c, assignedVariables, path) ==
    IF c > Len(s.cases) \/ st.failed
    THEN [st |-> st, assignedVariables |-> assignedVariables]
    ELSE visitCases_join(st,
                         visitBlock(Logged(st, "SwitchCase", path \o <<c>>, s, st, st),
                                    s.cases[c], path \o <<c>>),
                         s, c, assignedVariables, path)

\* operator()(Switch&) after the first loop
visitSwitch_end(r, s) ==
    IF r.st.failed THEN r.st
    ELSE clearValues(IF \E c \in DOMAIN s.cases : invalidatesStorageBlock(s.cases[c])
                     THEN [r.st EXCEPT !.m_storage = InvertibleMap_clear(@)] ELSE r.st,
                     r.assignedVariables)

\* operator()(Switch&)
visitSwitch(st, s, path) ==
    visitSwitch_end(visitCases(clearStorageKnowledgeIfInvalidated(st, s.expr), s, 1, {}, path), s)

RECURSIVE declareReturnVariables(_, _, _)
declareReturnVariables(st, rs, i) ==
    IF i > Len(rs) THEN st
    ELSE declareReturnVariables(handleAssignment(declare(st, {rs[i]}), {rs[i]}, NoExpr), rs, i + 1)

restore_withoutStorage(inner, outer) ==
    [inner EXCEPT !.m_value = outer.m_value, !.m_references = outer.m_references,
                  !.m_referencedBy = outer.m_referencedBy]

\* the swaps that end operator()(FunctionDefinition&)
restore(inner, outer) ==
    [inner EXCEPT !.m_value = outer.m_value, !.m_references = outer.m_references,
                  !.m_referencedBy = outer.m_referencedBy, !.m_storage = outer.m_storage]

\* operator()(FunctionDefinition&) after the body
visitFunctionDefinition_end(s3, outer) ==
    IF s3.failed THEN s3 ELSE restore(popScope(s3), outer)

\* operator()(FunctionDefinition&) from the body on
visitFunctionDefinition_body(s2, s, path, outer) ==
    visitFunctionDefinition_end(
        visitBlock(Logged(s2, "FunctionBody", path, s, s2, s2), s.body, path \o <<1>>), outer)

\* a handler that keeps the knowledge of the enclosing context
visitFunctionDefinition_shared(st, s, path) ==
    visitFunctionDefinition_body(
        declareReturnVariables(declare(pushScope(st, TRUE), s.parameters), s.returnVariables, 1),
        s, path, st)

\* operator()(FunctionDefinition&)
visitFunctionDefinition(st, s, path) ==
    visitFunctionDefinition_body(
        declareReturnVariables(
            declare(pushScope([st EXCEPT !.m_value = EmptyMap, !.m_references = EmptyMap,
                                         !.m_referencedBy = EmptyMap,
                                         !.m_storage = EmptyInvertibleMap], TRUE),
                    s.parameters),
            s.returnVariables, 1),
        s, path, st)

\* a clearing that asks about the condition of the loop only
clearStorageKnowledgeIfLoopInvalidates_conditionOnly(st, s) ==
    clearStorageKnowledgeIfInvalidated(st, s.expr)

\* the three clearStorageKnowledgeIfInvalidated calls of the loop handler
clearStorageKnowledgeIfLoopInvalidates(st, s) ==
    clearStorageKnowledgeIfInvalidatedBlock(
        clearStorageKnowledgeIfInvalidatedBlock(
            clearStorageKnowledgeIfInvalidated(st, s.expr), s.post), s.body)

ClearAssignedAfterLoop_skip(st, assignments) == st

\* clearValues(assignments.names()) after the post block
ClearAssignedAfterLoop(st, assignments) == clearValues(st, assignments)

\* operator()(ForLoop&) after the post block
visitForLoop_end(s4, s, assignments) ==
    IF s4.failed THEN s4
    ELSE clearStorageKnowledgeIfLoopInvalidates(ClearAssignedAfterLoop(s4, assignments), s)

\* ... from the post block on
visitForLoop_post(s3, s, path, assignments) ==
    visitForLoop_end(visitBlock(Logged(s3, "ForPost", path, s, s3, s3), s.post, path \o <<2>>),
                     s, assignments)

\* a step that keeps the values of the variables assigned after a continue
visitForLoop_body_keepValues(s2, s, path, assignments) ==
    IF s2.failed THEN s2
    ELSE visitForLoop_post(clearStorageKnowledgeIfInvalidatedBlock(s2, s.body),
                           s, path, assignments)

\* ... after the body
visitForLoop_body(s2, s, path, assignments) ==
    IF s2.failed THEN s2
    ELSE visitForLoop_post(
             clearStorageKnowledgeIfInvalidatedBlock(
                 clearValues(s2, AssignmentsSinceContinue(s.body)), s.body),
             s, path, assignments)

\* ... from the condition on
visitForLoop_condition(s1, s, path, assignments) ==
    visitForLoop_body(
        visitBlock(Logged(s1, "ForCondition", path, s, s1, s1), s.body, path \o <<1>>),
        s, path, assignments)

\* ... after the assertThrow
visitForLoop_loop(st, s, path, assignments) ==
    visitForLoop_condition(
        clearStorageKnowledgeIfLoopInvalidates(clearValues(st, assignments), s),
        s, path, assignments)

\* operator()(ForLoop&)
visitForLoop(st, s, path) ==
    IF s.pre # <<>> THEN Throw(Logged(st, "Throw", path, s, st, st))
    ELSE visitForLoop_loop(st, s, path, Assignments(s.body) \cup Assignments(s.post))

\* ASTModifier::visit(Statement&): dispatch on the kind of the node
visit_dispatch(st, s, path) ==
    CASE s.kind = "ExpressionStatement" -> visitExpressionStatement(st, s)
      [] s.kind = "Assignment" -> visitAssignment(st, s, path)
      [] s.kind = "VariableDeclaration" -> visitVariableDeclaration(st, s)
      [] s.kind = "If" -> visitIf(st, s, path)
      [] s.kind = "Switch" -> visitSwitch(st, s, path)
      [] s.kind = "FunctionDefinition" -> visitFunctionDefinition(st, s, path)
      [] s.kind = "ForLoop" -> visitForLoop(st, s, path)
      [] s.kind = "Block" -> visitBlock(st, s.body, path \o <<1>>)
      [] OTHER -> st

\* the history gets the state before and after the statement
visit_logged(st, s, path, r) ==
    IF r.failed THEN r ELSE Logged(r, "Statement", path, s, st, r)

\* ASTModifier::visit(Statement&)
visit(st, s, path) == visit_logged(st, s, path, visit_dispatch(st, s, path))

\* ------------------------------------------------------------------------
\* The programs the analyzer is run on: every statement is drawn from the
\* statements that are well scoped where it stands (vis: the variables in
\* scope, fresh: the names not in scope).
\* ------------------------------------------------------------------------
UserCall == FunctionCall("f", <<>>)
TwoValued == FunctionCall("g", <<>>)
Pairs(S) == {p \in S \X S : p[1] < p[2]}
Conditions == {Literal(1), UserCall}

Rhs(vis) ==
    {Literal(1), UserCall, FunctionCall("add", <<UserCall, Literal(1)>>)}
        \cup {Identifier(v) : v \in vis}
        \cup {FunctionCall("add", <<Identifier(p[1]), Identifier(p[2])>>) : p \in Pairs(vis)}

SimpleStores(vis) ==
    {ExpressionStatement(FunctionCall("sstore", <<Identifier(a), Identifier(b)>>)) :
        a \in vis, b \in vis}

ExpressionStatements(vis) ==
    SimpleStores(vis)
        \cup {ExpressionStatement(UserCall),
              ExpressionStatement(FunctionCall("pop", <<UserCall>>))}
        \cup {ExpressionStatement(FunctionCall("sstore", <<Identifier(a), Literal(1)>>)) :
                 a \in vis}

AssignmentStatements(vis) ==
    {Assignment({x}, e) : x \in vis, e \in Rhs(vis)}
        \cup {Assignment({p[1], p[2]}, TwoValued) : p \in Pairs(vis)}
        \cup {Assignment({x}, NoExpr) : x \in vis}

VariableDeclarations(vis, fresh) ==
    {VariableDeclaration({n}, e) : n \in fresh, e \in Rhs(vis) \cup {NoExpr}}
        \cup {VariableDeclaration({p[1], p[2]}, NoExpr) : p \in Pairs(fresh)}

\* the statements of nested blocks, of at most n statements each
InnerStatements(vis, fresh, inLoop, n) ==
    IF n = 0 THEN {}
    ELSE SimpleStores(vis)
        \cup {ExpressionStatement(UserCall)}
        \cup {Assignment({x}, Literal(1)) : x \in vis}
        \cup {Assignment({x}, Identifier(y)) : x \in vis, y \in vis}
        \cup {VariableDeclaration({x}, e) : x \in fresh,
                                           e \in {Literal(1)} \cup {Identifier(v) : v \in vis}}
        \cup (IF inLoop THEN {Break, Continue} ELSE {})
        \cup (IF n = 1 THEN {}
              ELSE {If(Literal(1), <<s>>) :
                       s \in {Assignment({x}, Literal(1)) : x \in vis}
                                \cup (IF inLoop THEN {Break, Continue} ELSE {})})

Declared(s) == IF s.kind = "VariableDeclaration" THEN s.names ELSE {}
InnerSize(s) == IF s.kind = "If" THEN 2 ELSE 1

\* the blocks of at most len statements at this level and n statements in all
RECURSIVE Bodies(_, _, _, _, _)
Bodies(vis, fresh, inLoop, len, n) ==
    IF len = 0 \/ n <= 0 THEN {<<>>}
    ELSE {<<>>} \cup UNION {
            {<<s>> \o b : b \in Bodies(vis \cup Declared(s), fresh \ Declared(s), inLoop,
                                       len - 1, n - InnerSize(s))} :
            s \in InnerStatements(vis, fresh, inLoop, n)}

\* the compound statements of at most n statements
IfStatements(vis, fresh, n) ==
    {If(c, b) : c \in Conditions, b \in Bodies(vis, fresh, FALSE, MaxBody, n - 1)}

SwitchStatements(vis, fresh, n) ==
    UNION {{Switch(c, <<b1, b2>>) : c \in Conditions,
                                    b2 \in Bodies(vis, fresh, FALSE, 1, n - 1 - Len(b1))} :
           b1 \in Bodies(vis, fresh, FALSE, 1, n - 1)}

ForLoops(vis, fresh, n) ==
    UNION {{ForLoop(<<>>, c, po, b) : c \in Conditions,
                                      b \in Bodies(vis, fresh, TRUE, MaxBody, n - 1 - Len(po))} :
           po \in Bodies(vis, {}, FALSE, 1, n - 1)}
        \cup {ForLoop(<<VariableDeclaration({x}, Literal(1))>>, Literal(1), <<>>, <<>>) :
                 x \in IF n >= 2 THEN fresh ELSE {}}

Blocks(vis, fresh, n) == {Block(b) : b \in Bodies(vis, fresh, FALSE, MaxBody, n - 1)}

FunctionDefinitions(fresh, n) ==
    UNION {{FunctionDefinition(sig[1], sig[2], b) :
                b \in Bodies(sig[1] \cup {sig[2][i] : i \in DOMAIN sig[2]},
                             fresh \ (sig[1] \cup {sig[2][i] : i \in DOMAIN sig[2]}),
                             FALSE, MaxBody, n - 1)} :
           sig \in {q \in ({{}} \cup {{x} : x \in fresh}) \X ({<<>>} \cup {<<x>> : x \in fresh}) :
                       q[1] \cap {q[2][i] : i \in DOMAIN q[2]} = {}}}

\* ------------------------------------------------------------------------
\* Reference semantics of the language, against which the knowledge of the
\* analyzer is judged: a machine state gives every variable its content and
\* every storage slot its content; Reach is the set of machine states that
\* some execution can be in at a program point (a condition may go either
\* way, a user function may return anything and store anything).
\* ------------------------------------------------------------------------
Words == {0, 1}
Stores == [Words -> Words]
Machine(vs, store) == [vars |-> vs, store |-> store]
InitialMachines == {Machine([x \in Vars |-> 0], store) : store \in Stores}

RECURSIVE Eval(_, _, _)
\* the results [val, store] of evaluating e with variables vs and storage store
Eval(e, vs, store) ==
    CASE e.kind = "Literal" -> {[val |-> e.value % Cardinality(Words), store |-> store]}
      [] e.kind = "Identifier" -> {[val |-> vs[e.name], store |-> store]}
      [] e.kind = "FunctionCall" /\ e.fn = "add" ->
            UNION {{[val |-> (r1.val + r2.val) % Cardinality(Words), store |-> r1.store] :
                       r1 \in Eval(e.args[1], vs, r2.store)} :
                   r2 \in Eval(e.args[2], vs, store)}
      [] e.kind = "FunctionCall" /\ e.fn = "pop" ->
            {[val |-> 0, store |-> r.store] : r \in Eval(e.args[1], vs, store)}
      [] e.kind = "FunctionCall" /\ e.fn = "sload" ->
            {[val |-> r.store[r.val], store |-> r.store] : r \in Eval(e.args[1], vs, store)}
      [] e.kind = "FunctionCall" /\ e.fn = "sstore" ->
            UNION {{[val |-> 0, store |-> [r1.store EXCEPT ![r1.val] = r2.val]] :
                       r1 \in Eval(e.args[1], vs, r2.store)} :
                   r2 \in Eval(e.args[2], vs, store)}
      [] OTHER -> {[val |-> v, store |-> st] : v \in Words, st \in Stores}

\* an expression whose evaluation neither depends on nor changes storage
Pure(e) == /\ MovableChecker(e).m_movable
           /\ e.kind # "None"

\* evaluating the expression e in machine state m yields the content of x
Yields(e, m, x) == Pure(e) /\ \A r \in Eval(e, m.vars, m.store) : r.val = m.vars[x]

AfterExpression(e, S) ==
    UNION {{Machine(m.vars, r.store) : r \in Eval(e, m.vars, m.store)} : m \in S}

AfterAssignment(names, e, S) ==
    IF e = NoExpr
    THEN {Machine([x \in Vars |-> IF x \in names THEN 0 ELSE m.vars[x]], m.store) : m \in S}
    ELSE IF Cardinality(names) = 1
    THEN UNION {{Machine([x \in Vars |-> IF x \in names THEN r.val ELSE m.vars[x]], r.store) :
                    r \in Eval(e, m.vars, m.store)} : m \in S}
    ELSE UNION {{Machine([x \in Vars |-> IF x \in names THEN ws[x] ELSE m.vars[x]], r.store) :
                    r \in Eval(e, m.vars, m.store), ws \in [names -> Words]} : m \in S}

\* the variables of a block end with it
AfterScope(ss, S) ==
    LET gone == UNION {Declared(ss[i]) : i \in DOMAIN ss}
    IN  {Machine([x \in Vars |-> IF x \in gone THEN 0 ELSE m.vars[x]], m.store) : m \in S}

Point(path, at, S) == [path |-> path, at |-> at, states |-> S]
Flow(out, brk, cont, reach) == [out |-> out, brk |-> brk, cont |-> cont, reach |-> reach]
\* r, and t after its normal end
FlowThen(r, t) == Flow(t.out, r.brk \cup t.brk, r.cont \cup t.cont, r.reach \cup t.reach)
\* r or t
FlowEither(r, t) ==
    Flow(r.out \cup t.out, r.brk \cup t.brk, r.cont \cup t.cont, r.reach \cup t.reach)

RECURSIVE Exec(_, _, _)
RECURSIVE ExecStatements(_, _, _, _)
RECURSIVE ExecCases(_, _, _, _)
RECURSIVE LoopHead(_, _, _)
RECURSIVE Iteration(_, _, _)
RECURSIVE ExecBlock(_, _, _)

ExecStatements_rest(r, ss, i, path) == FlowThen(r, ExecStatements(ss, i + 1, r.out, path))

\* the statements of a block from the i-th on, entered in the states S
ExecStatements(ss, i, S, path) ==
    IF i > Len(ss) THEN Flow(S, {}, {}, {})
    ELSE ExecStatements_rest(Exec(ss[i], S, path \o <<i>>), ss, i, path)

ExecBlock_leave(ss, r) ==
    Flow(AfterScope(ss, r.out), AfterScope(ss, r.brk), AfterScope(ss, r.cont), r.reach)

ExecBlock(ss, S, path) == ExecBlock_leave(ss, ExecStatements(ss, 1, S, path))

ExecCases(s, c, S, path) ==
    IF c > Len(s.cases) THEN Flow(S, {}, {}, {})
    ELSE FlowEither(ExecBlock(s.cases[c], S, path \o <<c>>), ExecCases(s, c + 1, S, path))

Iteration_result(H, C, b, P, p) ==
    [atCondition |-> H, exits |-> C \cup b.brk, atPost |-> P, next |-> p.out,
     reach |-> b.reach \cup p.reach]

Iteration_post(s, H, C, b, P, path) ==
    Iteration_result(H, C, b, P, ExecBlock(s.post, P, path \o <<2>>))

Iteration_body(s, H, C, b, path) == Iteration_post(s, H, C, b, b.out \cup b.cont, path)

Iteration_condition(s, H, C, path) ==
    Iteration_body(s, H, C, ExecBlock(s.body, C, path \o <<1>>), path)

\* one iteration of a loop entered at its condition in the states H
Iteration(s, H, path) == Iteration_condition(s, H, AfterExpression(s.expr, H), path)

LoopHead_next(s, H, n, path) == IF n = H THEN H ELSE LoopHead(s, n, path)

\* the states in which the condition of a loop is evaluated, in any iteration
LoopHead(s, H, path) == LoopHead_next(s, H, H \cup Iteration(s, H, path).next, path)

Exec_if(C, b) == Flow(C \cup b.out, b.brk, b.cont, b.reach)

Exec_ifBody(s, C, path) == Exec_if(C, ExecBlock(s.body, C, path \o <<1>>))

Exec_loop(it, path) ==
    Flow(it.exits, {}, {},
         it.reach \cup {Point(path, "ForCondition", it.atCondition),
                        Point(path, "ForPost", it.atPost)})

Exec_flow(s, S, path) ==
    CASE s.kind = "ExpressionStatement" -> Flow(AfterExpression(s.expr, S), {}, {}, {})
      [] s.kind \in {"Assignment", "VariableDeclaration"} ->
            Flow(AfterAssignment(s.names, s.expr, S), {}, {}, {})
      [] s.kind = "If" -> Exec_ifBody(s, AfterExpression(s.expr, S), path)
      [] s.kind = "Switch" -> ExecCases(s, 1, AfterExpression(s.expr, S), path)
      [] s.kind = "ForLoop" /\ s.pre = <<>> ->
            Exec_loop(Iteration(s, LoopHead(s, S, path), path), path)
      [] s.kind = "Block" -> ExecBlock(s.body, S, path \o <<1>>)
      [] s.kind = "Break" -> Flow({}, S, {}, {})
      [] s.kind = "Continue" -> Flow({}, {}, S, {})
      [] OTHER -> Flow(S, {}, {}, {})

\* the points before and after the statement
Exec_points(r, S, path) ==
    [r EXCEPT !.reach = @ \cup {Point(path, "Before", S), Point(path, "After", r.out)}]

Exec(s, S, path) == Exec_points(Exec_flow(s, S, path), S, path)

RECURSIVE Size(_)
RECURSIVE SizeOf(_)
\* the number of statements of a block, nested ones included
SizeOf(ss) == IF ss = <<>> THEN 0 ELSE Size(Head(ss)) + SizeOf(Tail(ss))
Size(s) ==
    1 + SizeOf(s.pre) + SizeOf(s.body) + SizeOf(s.post)
      + (IF s.cases = <<>> THEN 0 ELSE SizeOf(s.cases[1]) + SizeOf(s.cases[2]))

\* ------------------------------------------------------------------------
\* The analyzer run on one program: the outermost block is entered, its
\* statements are visited one after the other, and it is left.
\* ------------------------------------------------------------------------
VARIABLES m_value, m_references, m_referencedBy, m_storage, m_variableScopes,
          failed, log, phase, remaining
\* the machine states at the point the traversal stands at, the machine states
\* at the points of the statement visited last, and whether the program so
\* far is a sequence of expression statements, assignments and declarations
VARIABLES machines, reach, straight
\* one InvertibleMap and the number of operations applied to it
VARIABLES imap, imapOps
\* the input of a checker of Semantics.cpp and its answer
VARIABLES chkExpr, chkBlock, chkOf, chkDone, chkInvalidates
\* the MovableChecker run on chkExpr
VARIABLES chkMovable
\* the dialect of a TerminationFinder and its answer for the statements chkBlock
VARIABLES chkDialect, chkFlow

\* a KnowledgeBase (its rule database and the variable values it looks at),
\* the two variables of a query and the answer
VARIABLES kbRules, kbValue, kbA, kbB, kbDone, kbDifferent

kbVars == <<kbRules, kbValue, kbA, kbB, kbDone, kbDifferent>>

\* a question put to inScope and its answer
VARIABLES scopeAsked, scopeName, scopeAnswer

scopeVars == <<scopeAsked, scopeName, scopeAnswer>>

\* the variables of the checks of the single components
chkVars == <<chkExpr, chkBlock, chkOf, chkDone, chkInvalidates, chkMovable,
             chkDialect, chkFlow, kbVars, scopeVars>>

vars == <<m_value, m_references, m_referencedBy, m_storage, m_variableScopes,
          failed, log, phase, remaining, machines, reach, straight, imap, imapOps, chkVars>>

State ==
    [m_value |-> m_value, m_references |-> m_references, m_referencedBy |-> m_referencedBy,
     m_storage |-> m_storage, m_variableScopes |-> m_variableScopes,
     failed |-> FALSE, log |-> <<>>]

Becomes(r) ==
    /\ m_value' = r.m_value
    /\ m_references' = r.m_references
    /\ m_referencedBy' = r.m_referencedBy
    /\ m_storage' = r.m_storage
    /\ m_variableScopes' = r.m_variableScopes
    /\ failed' = r.failed
    /\ log' = r.log

Visible == UNION {m_variableScopes[i].variables : i \in DOMAIN m_variableScopes}
Fresh == Vars \ Visible

AnalyzerInit ==
    /\ m_value = EmptyMap
    /\ m_references = EmptyMap
    /\ m_referencedBy = EmptyMap
    /\ m_storage = EmptyInvertibleMap
    /\ m_variableScopes = <<>>
    /\ failed = FALSE
    /\ log = <<>>
    /\ phase = "constructed"
    /\ remaining = MaxStmts
    /\ machines = InitialMachines
    /\ reach = {}
    /\ straight = TRUE

InvertibleMapInit == imap = EmptyInvertibleMap /\ imapOps = 0

CheckerIdle ==
    /\ chkExpr = NoExpr
    /\ chkBlock = <<>>
    /\ chkOf = "none"
    /\ chkDone = FALSE
    /\ chkInvalidates = FALSE
    /\ chkMovable = MovableCheckerInit
    /\ chkDialect = "evm"
    /\ chkFlow = [kind |-> "FlowOut", index |-> -1]

KnowledgeIdle ==
    /\ kbRules = RuleList
    /\ kbValue = EmptyMap
    /\ kbA = 1
    /\ kbB = 1
    /\ kbDone = FALSE
    /\ kbDifferent = FALSE

ScopeIdle ==
    /\ scopeAsked = FALSE
    /\ scopeName = 0
    /\ scopeAnswer = FALSE

Init == AnalyzerInit /\ InvertibleMapInit /\ CheckerIdle /\ KnowledgeIdle /\ ScopeIdle

\* operator()(Block&) on the outermost block, up to its first statement
EnterBlock ==
    /\ phase = "constructed"
    /\ Becomes(pushScope(State, FALSE))
    /\ phase' = "walking"
    /\ UNCHANGED <<remaining, machines, reach, straight, imap, imapOps, chkVars>>

\* one statement of the outermost block
\* the visit of s ends in the analysis state r and the machine states x
Step_to(s, r, x) ==
    /\ Becomes(r)
    /\ remaining' = remaining - Size(s)
    /\ machines' = x.out
    /\ reach' = x.reach
    /\ straight' = (straight /\ s.kind \in {"ExpressionStatement", "Assignment",
                                              "VariableDeclaration"})
    /\ UNCHANGED <<phase, imap, imapOps, chkVars>>

Step(s) ==
    /\ phase = "walking"
    /\ ~failed
    /\ log = <<>>
    /\ Size(s) <= remaining
    /\ Step_to(s, visit(State, s, <<>>), Exec(s, machines, <<>>))

VisitExpressionStatement == \E s \in ExpressionStatements(Visible) : Step(s)
VisitAssignment == \E s \in AssignmentStatements(Visible) : Step(s)
VisitVariableDeclaration == \E s \in VariableDeclarations(Visible, Fresh) : Step(s)
VisitIf == \E s \in IfStatements(Visible, Fresh, remaining) : Step(s)
VisitSwitch == \E s \in SwitchStatements(Visible, Fresh, remaining) : Step(s)
VisitFunctionDefinition == \E s \in FunctionDefinitions(Fresh, remaining) : Step(s)
VisitForLoop == \E s \in ForLoops(Visible, Fresh, remaining) : Step(s)
VisitBlock == \E s \in Blocks(Visible, Fresh, remaining) : Step(s)

\* the handler of a statement returns to the walk over the outermost block;
\* the history of the finished visit is dropped
Return ==
    /\ phase = "walking"
    /\ ~failed
    /\ log # <<>>
    /\ log' = <<>>
    /\ reach' = {}
    /\ UNCHANGED <<m_value, m_references, m_referencedBy, m_storage, m_variableScopes,
                   failed, phase, remaining, machines, straight, imap, imapOps, chkVars>>

\* operator()(Block&) on the outermost block, after its last statement
LeaveBlock ==
    /\ phase = "walking"
    /\ ~failed
    /\ log = <<>>
    /\ Becomes(popScope(State))
    /\ phase' = "done"
    /\ UNCHANGED <<remaining, machines, reach, straight, imap, imapOps, chkVars>>

Next ==
    \/ EnterBlock
    \/ VisitExpressionStatement
    \/ VisitAssignment
    \/ VisitVariableDeclaration
    \/ VisitIf
    \/ VisitSwitch
    \/ VisitFunctionDefinition
    \/ VisitForLoop
    \/ VisitBlock
    \/ Return
    \/ LeaveBlock

Spec == Init /\ [][Next]_vars

\* ------------------------------------------------------------------------
\* One InvertibleMap under arbitrary sequences of its operations
\* ------------------------------------------------------------------------
analyzerVars == <<m_value, m_references, m_referencedBy, m_storage, m_variableScopes,
                  failed, log, phase, remaining, machines, reach, straight>>

MapInit == Init

MapSet ==
    /\ imapOps < MaxMapOps
    /\ \E k \in Vars, v \in Vars : imap' = InvertibleMap_set(imap, k, v)
    /\ imapOps' = imapOps + 1
    /\ UNCHANGED <<analyzerVars, chkVars>>

MapEraseKey ==
    /\ imapOps < MaxMapOps
    /\ \E k \in Vars : imap' = InvertibleMap_eraseKey(imap, k)
    /\ imapOps' = imapOps + 1
    /\ UNCHANGED <<analyzerVars, chkVars>>

MapEraseValue ==
    /\ imapOps < MaxMapOps
    /\ \E v \in Vars : imap' = InvertibleMap_eraseValue(imap, v)
    /\ imapOps' = imapOps + 1
    /\ UNCHANGED <<analyzerVars, chkVars>>

MapClear ==
    /\ imapOps < MaxMapOps
    /\ imap' = InvertibleMap_clear(imap)
    /\ imapOps' = imapOps + 1
    /\ UNCHANGED <<analyzerVars, chkVars>>

MapNext == MapSet \/ MapEraseKey \/ MapEraseValue \/ MapClear

SpecMap == MapInit /\ [][MapNext]_vars

\* The reverse index of a map agrees with its forward mapping.
ReverseIndexExact(m) ==
    \A v \in Vars : Get(m.references, v) = {k \in DOMAIN m.values : m.values[k] = v}

\* C3: after every operation of every sequence of set, eraseKey, eraseValue
\* and clear applied to the empty map, references[v] (empty when absent) is
\* exactly the set of keys k with values[k] = v, for every v.
C3_ReverseIndex == ReverseIndexExact(imap)

\* An overwritten key: the map holds two keys, one of which was redirected.
C3_Witness ==
    /\ imapOps >= 3
    /\ \E k1, k2 \in DOMAIN imap.values : k1 # k2 /\ imap.values[k1] = imap.values[k2]
    /\ \E v \in DOMAIN imap.references : imap.references[v] = {}

\* ------------------------------------------------------------------------
\* The checkers of Semantics.cpp applied to one expression or one block
\* ------------------------------------------------------------------------
\* Nesting depth of the checked expressions.
MaxDepth == 2

RECURSIVE CheckedExpressions(_)
CheckedExpressions(d) ==
    IF d = 0 THEN {Literal(1), Identifier(1)}
    ELSE LET sub == CheckedExpressions(d - 1)
         IN  sub \cup {FunctionCall(f, as) : f \in BuiltinNames \cup {"f"},
                                            as \in {<<a>> : a \in sub}
                                                     \cup {<<Literal(1), a>> : a \in sub}}
                 \cup {FunctionalInstruction(f, <<a>>) : f \in BuiltinNames, a \in sub}

CheckedBlocks ==
    LET es == CheckedExpressions(1)
    IN  {<<ExpressionStatement(e)>> : e \in es}
            \cup {<<Assignment({1}, e)>> : e \in es}
            \cup {<<VariableDeclaration({1}, e)>> : e \in es}
            \cup {<<If(e, <<>>)>> : e \in es}
            \cup {<<If(Literal(1), <<ExpressionStatement(e)>>)>> : e \in es}
            \cup {<<Switch(e, <<<<>>, <<>>>>)>> : e \in es}
            \cup {<<ForLoop(<<>>, e, <<>>, <<>>)>> : e \in es}
            \cup {<<ForLoop(<<>>, Literal(1), <<ExpressionStatement(e)>>, <<Break>>)>> : e \in es}
            \cup {<<Break, Block(<<ExpressionStatement(e)>>)>> : e \in es}

\* the expressions the MovableChecker is run on: up to MaxDepth calls deep,
\* over all variable names; the second argument of a call is a leaf
RECURSIVE MovableExpressions(_)
MovableExpressions(d) ==
    IF d = 0 THEN {Literal(1)} \cup {Identifier(v) : v \in Vars}
    ELSE LET sub == MovableExpressions(d - 1)
             leaves == MovableExpressions(0)
         IN  sub \cup {FunctionCall(f, <<a>>) : f \in BuiltinNames \cup {"f"}, a \in sub}
                 \cup {FunctionCall("add", <<a, b>>) : a \in sub, b \in leaves}
                 \cup {FunctionalInstruction("add", <<a, b>>) : a \in sub, b \in leaves}

\* Number of statements of a sequence given to the TerminationFinder.
MaxSeq == 3

\* the statements of those sequences
FlowStatements ==
    {Assignment({1}, Literal(1)), Break, Continue,
     ExpressionStatement(FunctionCall("stop", <<>>)),
     ExpressionStatement(FunctionalInstruction("stop", <<>>)),
     ExpressionStatement(FunctionCall("f", <<>>)),
     ExpressionStatement(FunctionCall("pop", <<FunctionCall("stop", <<>>)>>)),
     ExpressionStatement(FunctionalInstruction("add", <<Literal(1), Literal(1)>>)),
     If(Literal(1), <<Break>>), If(Literal(1), <<Continue>>),
     If(Literal(1), <<ExpressionStatement(FunctionCall("stop", <<>>))>>),
     Block(<<Break>>), Block(<<Continue>>),
     ForLoop(<<>>, Literal(1), <<>>, <<Break>>)}

RECURSIVE FlowSequences(_)
FlowSequences(n) ==
    IF n = 0 THEN {<<>>}
    ELSE FlowSequences(n - 1)
            \cup {Append(ss, s) : ss \in {t \in FlowSequences(n - 1) : Len(t) = n - 1},
                                  s \in FlowStatements}

CheckerInit ==
    /\ AnalyzerInit
    /\ InvertibleMapInit
    /\ KnowledgeIdle
    /\ ScopeIdle
    /\ chkDone = FALSE
    /\ chkInvalidates = FALSE
    /\ chkMovable = MovableCheckerInit
    /\ chkFlow = [kind |-> "FlowOut", index |-> -1]
    /\ \/ /\ chkOf = "expression" /\ chkExpr \in CheckedExpressions(MaxDepth) /\ chkBlock = <<>>
          /\ chkDialect = "evm"
       \/ /\ chkOf = "block" /\ chkExpr = NoExpr /\ chkBlock \in CheckedBlocks
          /\ chkDialect = "evm"
       \/ /\ chkOf = "movable" /\ chkExpr \in MovableExpressions(MaxDepth) /\ chkBlock = <<>>
          /\ chkDialect = "evm"
       \/ /\ chkOf = "flow" /\ chkExpr = NoExpr /\ chkBlock \in FlowSequences(MaxSeq)
          /\ chkDialect \in {"evm", "other"}

\* InvalidationChecker::invalidatesStorage(Dialect const&, Expression const&)
CheckExpression ==
    /\ chkOf = "expression"
    /\ ~chkDone
    /\ chkInvalidates' = invalidatesStorage(chkExpr)
    /\ chkDone' = TRUE
    /\ UNCHANGED <<analyzerVars, imap, imapOps, chkExpr, chkBlock, chkOf, chkMovable,
                   chkDialect, chkFlow, kbVars, scopeVars>>

\* InvalidationChecker::invalidatesStorage(Dialect const&, Block const&)
CheckBlock ==
    /\ chkOf = "block"
    /\ ~chkDone
    /\ chkInvalidates' = invalidatesStorageBlock(chkBlock)
    /\ chkDone' = TRUE
    /\ UNCHANGED <<analyzerVars, imap, imapOps, chkExpr, chkBlock, chkOf, chkMovable,
                   chkDialect, chkFlow, kbVars, scopeVars>>

\* MovableChecker(Dialect const&, Expression const&)
CheckMovable ==
    /\ chkOf = "movable"
    /\ ~chkDone
    /\ chkMovable' = MovableChecker(chkExpr)
    /\ chkDone' = TRUE
    /\ UNCHANGED <<analyzerVars, imap, imapOps, chkExpr, chkBlock, chkOf, chkInvalidates,
                   chkDialect, chkFlow, kbVars, scopeVars>>

\* TerminationFinder::firstUnconditionalControlFlowChange
CheckFlow ==
    /\ chkOf = "flow"
    /\ ~chkDone
    /\ chkFlow' = firstUnconditionalControlFlowChange(chkDialect, chkBlock)
    /\ chkDone' = TRUE
    /\ UNCHANGED <<analyzerVars, imap, imapOps, chkExpr, chkBlock, chkOf, chkInvalidates,
                   chkMovable, chkDialect, kbVars, scopeVars>>

CheckerNext == CheckExpression \/ CheckBlock \/ CheckMovable \/ CheckFlow

SpecChecker == CheckerInit /\ [][CheckerNext]_vars

RECURSIVE HasInvalidatingCall(_)
\* some part of the expression, at any depth, is a call of an unrecognized
\* function or of an operation flagged as invalidating storage
HasInvalidatingCall(e) ==
    \/ /\ e.kind \in {"FunctionCall", "FunctionalInstruction"}
       /\ (~IsBuiltin(e.fn) \/ BuiltinFunction(e.fn).invalidatesStorage)
    \/ \E i \in DOMAIN e.args : HasInvalidatingCall(e.args[i])

RECURSIVE BlockHasInvalidatingCall(_)
BlockHasInvalidatingCall(ss) ==
    \E i \in DOMAIN ss :
        \/ HasInvalidatingCall(ss[i].expr)
        \/ BlockHasInvalidatingCall(ss[i].pre)
        \/ BlockHasInvalidatingCall(ss[i].body)
        \/ BlockHasInvalidatingCall(ss[i].post)
        \/ \E c \in DOMAIN ss[i].cases : BlockHasInvalidatingCall(ss[i].cases[c])

\* C4: invalidatesStorage answers true exactly for the expressions and blocks
\* of which some part, at any nesting depth, is a call of an unrecognized
\* function or of an operation flagged as invalidating storage.
C4_InvalidatesAtAnyDepth ==
    chkDone => (chkInvalidates = IF chkOf = "expression" THEN HasInvalidatingCall(chkExpr)
                                 ELSE BlockHasInvalidatingCall(chkBlock))

RECURSIVE VariablesOf(_)
\* the variables that occur in the expression
VariablesOf(e) ==
    (IF e.kind = "Identifier" THEN {e.name} ELSE {})
        \cup UNION {VariablesOf(e.args[i]) : i \in DOMAIN e.args}

RECURSIVE OnlyHarmlessOperations(_)
\* every call of the expression is a call of a recognized operation that is
\* movable, side-effect-free and does not invalidate storage
OnlyHarmlessOperations(e) ==
    /\ e.kind \in {"FunctionCall", "FunctionalInstruction"} =>
          /\ IsBuiltin(e.fn)
          /\ BuiltinFunction(e.fn).movable
          /\ BuiltinFunction(e.fn).sideEffectFree
          /\ ~BuiltinFunction(e.fn).invalidatesStorage
    /\ \A i \in DOMAIN e.args : OnlyHarmlessOperations(e.args[i])

RECURSIVE HasUnrecognizedCall(_)
HasUnrecognizedCall(e) ==
    \/ e.kind \in {"FunctionCall", "FunctionalInstruction"} /\ ~IsBuiltin(e.fn)
    \/ \E i \in DOMAIN e.args : HasUnrecognizedCall(e.args[i])

\* C11: for an expression built from variable reads, literals and recognized
\* operations that are movable, side-effect-free and non-invalidating, the
\* MovableChecker reports movable, sideEffectFree, not invalidatesStorage and
\* exactly the variables of the expression; with a call of an unrecognized
\* function at any depth it reports not movable, not sideEffectFree and
\* invalidatesStorage.
C11_MovableChecker ==
    (chkDone /\ chkOf = "movable") =>
        /\ OnlyHarmlessOperations(chkExpr) =>
              /\ chkMovable.m_movable
              /\ chkMovable.m_sideEffectFree
              /\ ~chkMovable.m_invalidatesStorage
              /\ chkMovable.m_variableReferences = VariablesOf(chkExpr)
        /\ HasUnrecognizedCall(chkExpr) =>
              /\ ~chkMovable.m_movable
              /\ ~chkMovable.m_sideEffectFree
              /\ chkMovable.m_invalidatesStorage

\* A call of an unrecognized function among the arguments of a harmless
\* operation, in an expression that reads two variables.
C11_Witness ==
    /\ chkDone
    /\ chkOf = "movable"
    /\ chkExpr.kind = "FunctionCall"
    /\ chkExpr.fn = "add"
    /\ Len(chkExpr.args) = 2
    /\ chkExpr.args[1].kind = "FunctionCall"
    /\ ~IsBuiltin(chkExpr.args[1].fn)
    /\ chkExpr.args[2].kind = "Identifier"
    /\ Cardinality(chkMovable.m_variableReferences) = 2

\* A nested expression of harmless operations that reads every variable.
C11_WitnessHarmless ==
    /\ chkDone
    /\ chkOf = "movable"
    /\ OnlyHarmlessOperations(chkExpr)
    /\ chkExpr.kind = "FunctionCall"
    /\ chkMovable.m_variableReferences = Vars

\* the expression is a call of a builtin of the dialect that stands for a
\* terminating instruction; the builtins of a dialect other than the EVM
\* dialect stand for no instruction
TerminatingCall(dialect, e) ==
    /\ e.kind \in {"FunctionCall", "FunctionalInstruction"}
    /\ e.fn \in {"stop"}
    /\ e.kind = "FunctionCall" => dialect = "evm"

\* the statement itself is a break, a continue or a call of a terminating
\* builtin
FlowChange(dialect, s) ==
    CASE s.kind = "Break" -> "Break"
      [] s.kind = "Continue" -> "Continue"
      [] s.kind = "ExpressionStatement" /\ TerminatingCall(dialect, s.expr) -> "Terminate"
      [] OTHER -> "FlowOut"

\* C12: firstUnconditionalControlFlowChange returns (kind, i) for the least
\* index i whose statement is itself a break, a continue or an expression
\* statement that is a call of a terminating builtin, kind being the
\* classification of that statement, and (FlowOut, size_t(-1)) when the
\* sequence has no such statement at its top level.
C12_FirstFlowChange ==
    (chkDone /\ chkOf = "flow") =>
        LET changes == {i \in DOMAIN chkBlock : FlowChange(chkDialect, chkBlock[i]) # "FlowOut"}
        IN  IF changes = {} THEN chkFlow = [kind |-> "FlowOut", index |-> -1]
            ELSE /\ chkFlow.index = Min(changes) - 1
                 /\ chkFlow.kind = FlowChange(chkDialect, chkBlock[Min(changes)])
                 /\ chkFlow.kind # "FlowOut"

\* A sequence whose first statement holds a nested break and whose last
\* statement is the first flow change, a call of a terminating builtin.
C12_Witness ==
    /\ chkDone
    /\ chkOf = "flow"
    /\ Len(chkBlock) = 3
    /\ chkBlock[1].kind = "If"
    /\ chkBlock[1].body = <<Break>>
    /\ chkBlock[3].kind = "ExpressionStatement"
    /\ chkFlow = [kind |-> "Terminate", index |-> 2]

\* A sequence with nested flow changes only.
C12_WitnessFlowOut ==
    /\ chkDone
    /\ chkOf = "flow"
    /\ Len(chkBlock) = 3
    /\ \A i \in DOMAIN chkBlock : chkBlock[i].kind \in {"If", "Block", "ForLoop"}
    /\ chkFlow.kind = "FlowOut"

\* ------------------------------------------------------------------------
\* One KnowledgeBase asked one question
\* ------------------------------------------------------------------------
\* the values a variable can be known to have: literals and other variables
KnownValues(x) == {Literal(0), Literal(3), Literal(5)} \cup {Identifier(y) : y \in Vars \ {x}}

\* following the values that are variables from x ends within n steps
RECURSIVE ValueChainEnds(_, _, _)
ValueChainEnds(value, x, n) ==
    IF Has(value, x) /\ value[x].kind = "Identifier"
    THEN n > 0 /\ ValueChainEnds(value, value[x].name, n - 1)
    ELSE TRUE

\* the maps of known values: every variable has one of its values or none,
\* and no variable is known by way of itself
ValueMaps ==
    UNION {{c \in [known -> UNION {KnownValues(x) : x \in known}] :
               /\ \A x \in known : c[x] \in KnownValues(x)
               /\ \A x \in known : ValueChainEnds(c, x, NumVars)} :
           known \in SUBSET Vars}

KnowledgeInit ==
    /\ AnalyzerInit
    /\ InvertibleMapInit
    /\ CheckerIdle
    /\ ScopeIdle
    /\ kbRules \in SUBSET RuleList
    /\ kbValue \in ValueMaps
    /\ kbA \in Vars
    /\ kbB \in Vars
    /\ kbDone = FALSE
    /\ kbDifferent = FALSE

\* KnowledgeBase::knownToBeDifferent
AskDifferent ==
    /\ ~kbDone
    /\ kbDifferent' = knownToBeDifferentWith(kbRules, kbValue, kbA, kbB)
    /\ kbDone' = TRUE
    /\ UNCHANGED <<analyzerVars, imap, imapOps, chkExpr, chkBlock, chkOf, chkDone,
                   chkInvalidates, chkMovable, chkDialect, chkFlow,
                   kbRules, kbValue, kbA, kbB, scopeVars>>

KnowledgeNext == AskDifferent

SpecKnowledge == KnowledgeInit /\ [][KnowledgeNext]_vars

\* what the simplifier makes of sub(kbA, kbB) and of eq(kbA, kbB)
SimplifiedSub ==
    simplifyWith(kbRules, kbValue, FunctionCall("sub", <<Identifier(kbA), Identifier(kbB)>>))
SimplifiedEq ==
    simplifyWith(kbRules, kbValue, FunctionCall("eq", <<Identifier(kbA), Identifier(kbB)>>))

\* C13: knownToBeDifferent(a, b) is true exactly when simplify(sub(a, b)) is a
\* literal other than zero, or simplify(sub(a, b)) is no literal and
\* simplify(eq(a, b)) is the literal zero; knownToBeDifferent(a, a) is false.
C13_KnownToBeDifferent ==
    kbDone =>
        /\ kbDifferent =
              (\/ SimplifiedSub.kind = "Literal" /\ SimplifiedSub.value # 0
               \/ /\ SimplifiedSub.kind # "Literal"
                  /\ SimplifiedEq.kind = "Literal"
                  /\ SimplifiedEq.value = 0)
        /\ kbA = kbB => ~kbDifferent

\* Two variables known to be different literals, found different by the
\* second question because the first yields no literal.
C13_Witness ==
    /\ kbDone
    /\ kbDifferent
    /\ SimplifiedSub.kind # "Literal"
    /\ KnownLiteral(kbValue, Identifier(kbA))
    /\ KnownLiteral(kbValue, Identifier(kbB))

\* Two variables known to be the literals 3 and 5, found different by the
\* first question under the whole rule list.
C13_WitnessFolded ==
    /\ kbDone
    /\ kbDifferent
    /\ kbRules = RuleList
    /\ Has(kbValue, kbA) /\ kbValue[kbA] = Literal(3)
    /\ Has(kbValue, kbB) /\ kbValue[kbB] = Literal(5)

\* The same variable asked about twice, its value being a known literal.
C13_WitnessSame ==
    /\ kbDone
    /\ kbA = kbB
    /\ KnownLiteral(kbValue, Identifier(kbA))
    /\ SimplifiedSub = Literal(0)

\* ------------------------------------------------------------------------
\* The scope stack under the operations the handlers apply to it, and
\* inScope asked about it
\* ------------------------------------------------------------------------
\* Depth of the scope stack.
MaxScopes == 4

\* what a change of the scope stack leaves alone; an answer of inScope is of
\* the stack it was given for
ScopesChanged ==
    /\ scopeAsked' = FALSE
    /\ scopeName' = 0
    /\ scopeAnswer' = FALSE
    /\ UNCHANGED <<phase, remaining, machines, reach, straight, imap, imapOps,
                   chkExpr, chkBlock, chkOf, chkDone, chkInvalidates, chkMovable,
                   chkDialect, chkFlow, kbVars>>

\* pushScope(false) of operator()(Block&), pushScope(true) of
\* operator()(FunctionDefinition&); the scope of a function is followed by
\* the scope of its body
ScopePush ==
    /\ Len(m_variableScopes) < MaxScopes
    /\ \E functionScope \in {b \in BOOLEAN :
                                 b => IF m_variableScopes = <<>> THEN TRUE
                                      ELSE ~m_variableScopes[Len(m_variableScopes)].isFunction} :
          Becomes(pushScope(State, functionScope))
    /\ ScopesChanged

\* m_variableScopes.back().variables gets a name that is not visible
ScopeDeclare ==
    /\ m_variableScopes # <<>>
    /\ \E x \in Fresh : Becomes(declare(State, {x}))
    /\ ScopesChanged

ScopePop ==
    /\ m_variableScopes # <<>>
    /\ Becomes(popScope(State))
    /\ ScopesChanged

\* DataFlowAnalyzer::inScope
ScopeQuery ==
    /\ ~scopeAsked
    /\ \E variableName \in Vars :
          /\ scopeName' = variableName
          /\ scopeAnswer' = inScope(State, variableName)
    /\ scopeAsked' = TRUE
    /\ UNCHANGED <<analyzerVars, imap, imapOps, chkExpr, chkBlock, chkOf, chkDone,
                   chkInvalidates, chkMovable, chkDialect, chkFlow, kbVars>>

ScopesNext == ScopePush \/ ScopeDeclare \/ ScopePop \/ ScopeQuery

SpecScopes == Init /\ [][ScopesNext]_vars

\* the index of the nearest function scope, or of the outermost scope
NearestFunctionScope ==
    LET fs == {i \in DOMAIN m_variableScopes : m_variableScopes[i].isFunction}
    IN  IF fs = {} THEN 1 ELSE CHOOSE i \in fs : \A j \in fs : j <= i

\* C14: inScope(v) is true exactly when v is in one of the scopes from the
\* innermost one out to the nearest function scope, that scope included.
C14_InScope ==
    scopeAsked =>
        (scopeAnswer <=> \E i \in NearestFunctionScope..Len(m_variableScopes) :
                            scopeName \in m_variableScopes[i].variables)

\* A variable of a scope outside the function scope, asked about from a
\* block within the function.
C14_Witness ==
    /\ scopeAsked
    /\ ~scopeAnswer
    /\ Len(m_variableScopes) >= 3
    /\ NearestFunctionScope > 1
    /\ NearestFunctionScope < Len(m_variableScopes)
    /\ \E i \in 1..(NearestFunctionScope - 1) : scopeName \in m_variableScopes[i].variables

\* A variable of the function scope, asked about from a block within the
\* function.
C14_WitnessParameter ==
    /\ scopeAsked
    /\ scopeAnswer
    /\ NearestFunctionScope < Len(m_variableScopes)
    /\ m_variableScopes[NearestFunctionScope].isFunction
    /\ scopeName \in m_variableScopes[NearestFunctionScope].variables

\* ------------------------------------------------------------------------
\* Properties of the analyzer
\* ------------------------------------------------------------------------
Entries(at) == {log[i] : i \in {j \in DOMAIN log : log[j].at = at}}
Visited(kind) == {e \in Entries("Statement") : e.node.kind = kind}
ReachAt(path, at) == UNION {p.states : p \in {q \in reach : q.path = path /\ q.at = at}}
StorageEmpty(m) == m.values = EmptyMap /\ m.references = EmptyMap
\* path p lies below path q
Below(p, q) == Len(p) > Len(q) /\ SubSeq(p, 1, Len(q)) = q

\* every recorded value, evaluated in any machine state of S, is the content
\* of its variable
ValuesHold(value, S) == \A m \in S : \A x \in DOMAIN value : Yields(value[x], m, x)

\* C1: at every point of the traversal of a program without function
\* definitions, every value entry value[x] = e is true of every execution that
\* reaches the point: evaluating e there yields the current content of x.
C1_ValueSoundness ==
    /\ (phase = "walking" /\ ~failed) => ValuesHold(m_value, machines)
    /\ \A e \in Entries("Statement") :
          /\ ValuesHold(e.pre.m_value, ReachAt(e.path, "Before"))
          /\ ValuesHold(e.post.m_value, ReachAt(e.path, "After"))
    /\ \A e \in Entries("ForCondition") :
          ValuesHold(e.pre.m_value, ReachAt(e.path, "ForCondition"))
    /\ \A e \in Entries("ForPost") :
          ValuesHold(e.pre.m_value, ReachAt(e.path, "ForPost"))

\* A loop that assigns a variable whose value was known before it, while
\* another variable keeps its value over the loop, in some execution.
C1_Witness ==
    \E e \in Visited("ForLoop") :
        /\ \E x \in Assignments(e.node.body) : x \in DOMAIN e.pre.m_value
        /\ e.post.m_value # EmptyMap
        /\ ReachAt(e.path, "After") # {}
        /\ \E p \in reach : Below(p.path, e.path) /\ p.at = "After" /\ p.states # {}

\* every storage entry, read in any machine state of S, is true: the slot
\* numbered by the content of the key holds the content of the value
StorageHolds(storage, S) ==
    \A m \in S : \A k \in DOMAIN storage.values :
        m.store[m.vars[k]] = m.vars[storage.values[k]]

\* C2: after any sequence of expression statements, assignments and
\* declarations, every entry storage[k] = v is true of the execution: the
\* slot whose number is the content of k holds the content of v.
C2_StorageSoundness ==
    (straight /\ phase = "walking" /\ ~failed) => StorageHolds(m_storage, machines)

\* C5: immediately after an expression statement that is a call of an
\* unrecognized function, the storage map has no keys and no reverse entries.
C5_UnrecognizedCallClearsStorage ==
    \A e \in Visited("ExpressionStatement") :
        (/\ ~isSimpleSStore(e.node)
         /\ e.node.expr.kind = "FunctionCall"
         /\ ~IsBuiltin(e.node.expr.fn)) => StorageEmpty(e.post.m_storage)

\* An unrecognized call that follows a recorded store.
C5_Witness ==
    \E e \in Visited("ExpressionStatement") :
        /\ ~isSimpleSStore(e.node)
        /\ ~IsBuiltin(e.node.expr.fn)
        /\ e.pre.m_storage.values # EmptyMap

\* C6: after a simple store sstore(x, y), storage maps x to y and x is in the
\* reverse index of no other value; an earlier entry (k, v) with k # x is
\* kept unchanged if knownToBeDifferent(x, k) holds or v is y, and is removed
\* otherwise.
C6_SimpleStore ==
    \A e \in Visited("ExpressionStatement") :
        isSimpleSStore(e.node) =>
            LET x == e.node.expr.args[1].name
                y == e.node.expr.args[2].name
                before == e.pre.m_storage.values
                after == e.post.m_storage.values
            IN  /\ Has(after, x) /\ after[x] = y
                /\ \A v \in Vars \ {y} : x \notin Get(e.post.m_storage.references, v)
                /\ DOMAIN after \subseteq (DOMAIN before) \cup {x}
                /\ \A k \in (DOMAIN before) \ {x} :
                      IF knownToBeDifferent(e.pre.m_value, x, k) \/ before[k] = y
                      THEN Has(after, k) /\ after[k] = before[k]
                      ELSE ~Has(after, k)

\* A store that overwrites the entry of its key, keeps one entry because the
\* slots are known to differ, or removes another one.
C6_Witness ==
    \E e \in Visited("ExpressionStatement") :
        /\ isSimpleSStore(e.node)
        /\ LET x == e.node.expr.args[1].name
               y == e.node.expr.args[2].name
               before == e.pre.m_storage.values
           IN  \E k \in (DOMAIN before) \ {x} :
                  /\ before[k] # y
                  /\ knownToBeDifferent(e.pre.m_value, x, k)
                  /\ Has(e.post.m_storage.values, k)

\* A store that removes an entry of another key.
C6_WitnessRemoved ==
    \E e \in Visited("ExpressionStatement") :
        /\ isSimpleSStore(e.node)
        /\ \E k \in DOMAIN e.pre.m_storage.values :
              k # e.node.expr.args[1].name /\ ~Has(e.post.m_storage.values, k)

\* the IfJoin entry of the conditional at path
JoinOf(path) == CHOOSE j \in Entries("IfJoin") : j.path = path

\* C7: every storage entry that remains after a conditional was present with
\* the same value in the snapshot taken before the branch and in the storage
\* at the end of the branch; the snapshot is the storage as it was when the
\* branch was entered.
C7_JoinAfterIf ==
    \A e \in Visited("If") :
        LET j == JoinOf(e.path)
            snapshot == j.pre.m_storage
            branchEnd == j.post.m_storage.values
            after == e.post.m_storage.values
        IN  /\ snapshot = IF invalidatesStorage(e.node.expr) THEN EmptyInvertibleMap
                          ELSE e.pre.m_storage
            /\ \A k \in DOMAIN after :
                  /\ Has(snapshot.values, k) /\ snapshot.values[k] = after[k]
                  /\ Has(branchEnd, k) /\ branchEnd[k] = after[k]

\* A branch that stores to a slot unknown before it, while an entry known
\* before the conditional is kept.
C7_Witness ==
    \E e \in Visited("If") :
        LET j == JoinOf(e.path)
        IN  /\ \E k \in DOMAIN j.post.m_storage.values : ~Has(j.pre.m_storage.values, k)
            /\ e.post.m_storage.values # EmptyMap

\* C8: no variable assigned in the body or the post block of a for loop with
\* empty pre block has a value entry when the condition is visited, nor
\* immediately after the loop.
C8_LoopAssignedUnknown ==
    /\ \A e \in Entries("ForCondition") :
          \A x \in Assignments(e.node.body) \cup Assignments(e.node.post) :
              ~Has(e.pre.m_value, x)
    /\ \A e \in Visited("ForLoop") :
          \A x \in Assignments(e.node.body) \cup Assignments(e.node.post) :
              ~Has(e.post.m_value, x)

\* A loop whose body records a value for a variable that was known before it.
C8_Witness ==
    \E e \in Visited("ForLoop") :
        \E x \in Assignments(e.node.body) :
            /\ Has(e.pre.m_value, x)
            /\ \E b \in Entries("Statement") : Below(b.path, e.path) /\ Has(b.post.m_value, x)

\* C9: value, references, referencedBy, storage and the scope stack are after
\* the visit of a function definition what they were before it.
C9_FunctionDefinitionIsolated ==
    \A e \in Visited("FunctionDefinition") : e.post = e.pre

\* A function whose body records values and stores, visited with knowledge
\* about the enclosing block.
C9_Witness ==
    \E e \in Visited("FunctionDefinition") :
        /\ e.pre.m_value # EmptyMap
        /\ e.pre.m_storage.values # EmptyMap
        /\ \E b \in Entries("Statement") :
              /\ Below(b.path, e.path)
              /\ b.post.m_value # EmptyMap
              /\ b.post.m_storage.values # EmptyMap

DeclaredIn(ss) == UNION {Declared(ss[i]) : i \in DOMAIN ss}

\* C10: after a block, a variable declared directly in it has no value entry
\* and no references, is in no references set, and is neither key nor value
\* of a storage entry.
C10_BlockVariablesForgotten ==
    \A e \in Entries("Block") :
        \A t \in DeclaredIn(e.node.body) :
            /\ ~Has(e.post.m_value, t)
            /\ Get(e.post.m_references, t) = {}
            /\ \A y \in Vars : t \notin Get(e.post.m_references, y)
            /\ ~Has(e.post.m_storage.values, t)
            /\ \A k \in DOMAIN e.post.m_storage.values : e.post.m_storage.values[k] # t

\* A block at whose end a variable declared in it has a value and is read by
\* the value of a variable of the enclosing block.
C10_Witness ==
    \E e \in Entries("Block") :
        \E t \in DeclaredIn(e.node.body) :
            /\ Has(e.pre.m_value, t)
            /\ \E y \in Vars \ DeclaredIn(e.node.body) : t \in Get(e.pre.m_references, y)
\* the assignments and declarations visited last, nested ones included
Assigned == Visited("Assignment") \cup Visited("VariableDeclaration")

\* the variables whose references set holds a member of S
ReadersOf(references, S) == {y \in Vars : Get(references, y) \cap S # {}}

\* C15: clearValues(S) removes the value entry of exactly the variables in S
\* and the variables whose references set holds a member of S; any other
\* variable keeps its value entry, also when it reads a variable cleared by
\* the cascade.  Seen at an assignment, which clears its targets.
C15_OneLevelCascade ==
    \A e \in Assigned :
        LET cleared == e.node.names \cup ReadersOf(e.pre.m_references, e.node.names)
        IN  \A z \in Vars \ e.node.names :
                IF Has(e.pre.m_value, z) /\ z \notin cleared
                THEN Has(e.post.m_value, z) /\ e.post.m_value[z] = e.pre.m_value[z]
                ELSE ~Has(e.post.m_value, z)

RECURSIVE MovableOperationsOnly(_)
\* every call of the expression is a call of a recognized movable operation
MovableOperationsOnly(e) ==
    /\ e.kind \in {"FunctionCall", "FunctionalInstruction"} =>
          IsBuiltin(e.fn) /\ BuiltinFunction(e.fn).movable
    /\ \A i \in DOMAIN e.args : MovableOperationsOnly(e.args[i])

\* C16: after an assignment or an initialized declaration with targets T and
\* right-hand side e, a target x has a value entry exactly when T = {x}, e is
\* movable and e does not read x, and the entry is e; after a declaration
\* without initializer every target has the literal zero as value.
C16_RecordedValue ==
    \A e \in Assigned :
        \A x \in e.node.names :
            IF e.node.expr = NoExpr
            THEN Has(e.post.m_value, x) /\ e.post.m_value[x] = Literal(0)
            ELSE IF /\ e.node.names = {x}
                    /\ MovableOperationsOnly(e.node.expr)
                    /\ x \notin VariablesOf(e.node.expr)
                 THEN Has(e.post.m_value, x) /\ e.post.m_value[x] = e.node.expr
                 ELSE ~Has(e.post.m_value, x)

\* An assignment of a movable expression that reads its target, to a
\* variable whose value was known.
C16_Witness ==
    \E e \in Visited("Assignment") :
        \E x \in e.node.names :
            /\ e.node.names = {x}
            /\ MovableOperationsOnly(e.node.expr)
            /\ x \in VariablesOf(e.node.expr)
            /\ Has(e.pre.m_value, x)
            /\ ~Has(e.post.m_value, x)

\* An assignment that records a movable expression reading another variable.
C16_WitnessRecorded ==
    \E e \in Visited("Assignment") :
        \E x \in e.node.names :
            /\ VariablesOf(e.node.expr) # {}
            /\ Has(e.post.m_value, x)
            /\ e.post.m_value[x] = e.node.expr
\* the analysis states the history holds, and the current one
Snapshots ==
    {log[i].pre : i \in DOMAIN log} \cup {log[i].post : i \in DOMAIN log} \cup {Snap(State)}

\* references and referencedBy are each other's inverse
MutuallyInverse(st) ==
    \A x \in Vars : \A r \in Vars :
        r \in Get(st.m_references, x) <=> x \in Get(st.m_referencedBy, r)

\* C17: in every analysis state, r is in references[x] exactly when x is in
\* referencedBy[r], absent entries being empty: after every assignment,
\* declaration, clearValues, scope pop and function definition.
C17_ReferencesInverse == \A st \in Snapshots : MutuallyInverse(st)

\* An assignment that takes one of two readers of a variable away.
C17_Witness ==
    \E e \in Visited("Assignment") :
        \E r \in Vars :
            /\ Cardinality(Get(e.pre.m_referencedBy, r)) = 2
            /\ Cardinality(Get(e.post.m_referencedBy, r)) = 1

\* the variables with a value entry that the value of x reads
ValueEdges(st, x) == {r \in Get(st.m_references, x) : Has(st.m_value, r)}

\* the variables reached from S along at most n such edges
RECURSIVE ReachedFrom(_, _, _)
ReachedFrom(st, S, n) ==
    IF n = 0 THEN S
    ELSE ReachedFrom(st, S \cup UNION {ValueEdges(st, y) : y \in S}, n - 1)

KnownValuesWellFormed(st) ==
    \A x \in DOMAIN st.m_value :
        /\ MovableOperationsOnly(st.m_value[x])
        /\ Get(st.m_references, x) = VariablesOf(st.m_value[x])
        /\ x \notin Get(st.m_references, x)
        /\ x \notin ReachedFrom(st, ValueEdges(st, x), NumVars)

\* C18: in every analysis state, for every variable x with a value entry the
\* recorded expression is movable, references[x] is exactly the set of
\* variables it reads, x is not among them, and following the variables read
\* that have a value entry never leads back to x.
C18_KnownValuesWellFormed == \A st \in Snapshots : KnownValuesWellFormed(st)

\* An assignment x := y to a variable that the known value of y read.
C18_Witness ==
    \E e \in Visited("Assignment") :
        \E x \in e.node.names :
            /\ e.node.expr.kind = "Identifier"
            /\ Has(e.pre.m_value, e.node.expr.name)
            /\ x \in Get(e.pre.m_references, e.node.expr.name)
            /\ Has(e.post.m_value, x)

\* the storage entries that involve none of the variables of S
EntriesApartFrom(storage, S) ==
    {k \in DOMAIN storage.values : k \notin S /\ storage.values[k] \notin S}

NoTargetInStorage(e) ==
    \A t \in e.node.names :
        /\ ~Has(e.post.m_storage.values, t)
        /\ \A k \in DOMAIN e.post.m_storage.values : e.post.m_storage.values[k] # t

\* the entries of ks are after the statement what they were before it
EntriesKept(e, ks) ==
    \A k \in ks : /\ Has(e.post.m_storage.values, k)
                  /\ e.post.m_storage.values[k] = e.pre.m_storage.values[k]

RECURSIVE ReadersClosure(_, _, _)
ReadersClosure(references, S, n) ==
    IF n = 0 THEN S
    ELSE ReadersClosure(references, S \cup ReadersOf(references, S), n - 1)

C20_FunctionBodyStartsFresh ==
    \A e \in Entries("FunctionBody") :
        LET returns == {e.node.returnVariables[i] : i \in DOMAIN e.node.returnVariables}
        IN  /\ DOMAIN e.pre.m_value = returns
            /\ \A r \in returns : e.pre.m_value[r] = Literal(0)
            /\ \A p \in e.node.parameters : ~Has(e.pre.m_value, p)
            /\ \A x \in Vars : /\ Get(e.pre.m_references, x) = {}
                                /\ Get(e.pre.m_referencedBy, x) = {}
                                /\ Get(e.pre.m_storage.references, x) = {}
            /\ e.pre.m_storage.values = EmptyMap

\* A function with a parameter and a return variable, defined where a value
\* of the enclosing block is known.
C20_WitnessParameter ==
    \E e \in Entries("FunctionBody") :
        /\ e.node.parameters # {}
        /\ e.node.returnVariables # <<>>
        /\ \E d \in Visited("FunctionDefinition") : d.path = e.path /\ d.pre.m_value # EmptyMap

\* A function with a return variable, defined where values, references and
\* storage entries of the enclosing block are known.
C20_Witness ==
    \E e \in Entries("FunctionBody") :
        /\ e.node.returnVariables # <<>>
        /\ \E d \in Visited("FunctionDefinition") :
              /\ d.path = e.path
              /\ d.pre.m_value # EmptyMap
              /\ d.pre.m_storage.values # EmptyMap
              /\ \E x \in Vars : Get(d.pre.m_references, x) # {}

\* the SwitchCase entry of case c of the switch at path: the state in which
\* the storage snapshot of the case is taken
CaseStart(path, c) == CHOOSE j \in Entries("SwitchCase") : j.path = path \o <<c>>

\* the variables declared anywhere in a block
RECURSIVE Declarations(_)
Declarations(ss) ==
    UNION {Declared(ss[i]) \cup Declarations(ss[i].body) \cup Declarations(ss[i].post)
              : i \in DOMAIN ss}

\* the states the traversal of case c of the switch at path passes: the
\* start of the case, and before and after each statement in it
StatesInCase(path, c) ==
    {CaseStart(path, c).pre}
        \cup UNION {{b.pre, b.post} :
                       b \in {a \in Entries("Statement") \cup Entries("Block") :
                                 a.path = path \o <<c>> \/ Below(a.path, path \o <<c>>)}}

AssignedInEarlierCases(s, c) == UNION {Assignments(s.cases[d]) : d \in 1..(c - 1)}
AssignedInCases(s) == AssignedInEarlierCases(s, Len(s.cases) + 1)

\* what C21 says about the state after the switch e
AfterSwitch(e) ==
    /\ \A x \in AssignedInCases(e.node) : ~Has(e.post.m_value, x)
    /\ \A k \in DOMAIN e.post.m_storage.values :
          /\ Has(CaseStart(e.path, 1).pre.m_storage.values, k)
          /\ CaseStart(e.path, 1).pre.m_storage.values[k] = e.post.m_storage.values[k]
    /\ (\E c \in DOMAIN e.node.cases : invalidatesStorageBlock(e.node.cases[c]))
          => StorageEmpty(e.post.m_storage)

C21_WitnessInvalidated ==
    \E e \in Visited("Switch") :
        /\ \E c \in DOMAIN e.node.cases : invalidatesStorageBlock(e.node.cases[c])
        /\ e.pre.m_storage.values # EmptyMap

\* A switch with a case that is not empty, after which a storage entry known
\* before it remains.
C21_WitnessKept ==
    \E e \in Visited("Switch") :
        /\ \E c \in DOMAIN e.node.cases : e.node.cases[c] # <<>>
        /\ e.post.m_storage.values # EmptyMap

\* InvalidationChecker reports that the condition, the body or the post
\* block of the loop s invalidates storage
LoopInvalidates(s) ==
    \/ invalidatesStorage(s.expr)
    \/ invalidatesStorageBlock(s.body)
    \/ invalidatesStorageBlock(s.post)

C22_WitnessPost ==
    \E e \in Visited("ForLoop") :
        /\ e.pre.m_storage.values # EmptyMap
        /\ ~invalidatesStorage(e.node.expr)
        /\ ~invalidatesStorageBlock(e.node.body)
        /\ invalidatesStorageBlock(e.node.post)

\* the statements of a block in the order of the text, nested ones included;
\* nested tells whether the statement stands in a loop within the block
RECURSIVE InOrder(_, _)
RECURSIVE InOrder_statement(_, _)
RECURSIVE InOrder_cases(_, _)
InOrder(ss, nested) ==
    IF ss = <<>> THEN <<>>
    ELSE InOrder_statement(Head(ss), nested) \o InOrder(Tail(ss), nested)

InOrder_cases(cs, nested) ==
    IF cs = <<>> THEN <<>> ELSE InOrder(Head(cs), nested) \o InOrder_cases(Tail(cs), nested)

InOrder_statement(s, nested) ==
    <<[kind |-> s.kind, names |-> s.names, nested |-> nested]>>
        \o InOrder(s.pre, nested \/ s.kind = "ForLoop")
        \o InOrder(s.body, nested \/ s.kind = "ForLoop")
        \o InOrder(s.post, nested \/ s.kind = "ForLoop")
        \o InOrder_cases(s.cases, nested)

\* the continue statements of the loop whose body is ss, by position
ContinuesOf(ss) ==
    {i \in DOMAIN InOrder(ss, FALSE) :
        InOrder(ss, FALSE)[i].kind = "Continue" /\ ~InOrder(ss, FALSE)[i].nested}

\* the targets of the assignments that stand after the first continue
AssignedAfterContinue(ss) ==
    IF ContinuesOf(ss) = {} THEN {}
    ELSE UNION {InOrder(ss, FALSE)[i].names :
                   i \in {j \in DOMAIN InOrder(ss, FALSE) :
                             /\ j > Min(ContinuesOf(ss))
                             /\ InOrder(ss, FALSE)[j].kind = "Assignment"}}

\* C23: when the post block of a for loop starts to be traversed, no variable
\* that is assigned in the body after the first continue statement has a
\* value entry, even if the traversal of the body recorded a value for it.
C23_AssignedAfterContinueUnknown ==
    \A e \in Entries("ForPost") :
        \A x \in AssignedAfterContinue(e.node.body) : ~Has(e.pre.m_value, x)

\* A loop whose body assigns a variable after a continue and has a value
\* recorded for it at its end.
C23_Witness ==
    \E e \in Entries("ForPost") :
        \E x \in AssignedAfterContinue(e.node.body) :
            \E b \in Entries("Block") : b.path = e.path \o <<1>> /\ Has(b.post.m_value, x)

\* the BlockStart entry of the block at path: the state it is entered in
BlockStart(path) == CHOOSE j \in Entries("BlockStart") : j.path = path

Depth(st) == Len(st.m_variableScopes)

\* C24: scope pushes and pops are balanced.  For every block whose traversal
\* completes, the scope stack after the block has the depth it had before
\* it, one less than at the end of its statements, so the assertion at the
\* end of operator()(Block&) does not fail; the depth after a function
\* definition is the depth before it; the outermost block leaves no scope.
C24_ScopesBalanced ==
    /\ \A e \in Entries("Block") :
          /\ Depth(e.post) = Depth(BlockStart(e.path).pre)
          /\ Depth(e.pre) = Depth(e.post) + 1
    /\ \A e \in Visited("FunctionDefinition") : Depth(e.post) = Depth(e.pre)
    /\ \A e \in Entries("Statement") : Depth(e.post) = Depth(e.pre)
    /\ phase = "done" => (m_variableScopes = <<>> /\ ~failed)

\* A block that declares a variable and holds a conditional, the block of
\* which is traversed three scopes deep.
C24_Witness ==
    \E e \in Entries("Block") :
        /\ DeclaredIn(e.node.body) # {}
        /\ \E b \in Entries("Block") : Below(b.path, e.path) /\ Depth(b.pre) >= 3

\* A function definition with a parameter whose body declares a variable.
C24_WitnessFunction ==
    \E e \in Visited("FunctionDefinition") :
        /\ e.node.parameters # {}
        /\ DeclaredIn(e.node.body) # {}
        /\ \E b \in Entries("Block") : b.path = e.path \o <<1>> /\ Depth(b.pre) >= 3

\* The outermost block is left after statements that declared variables.
C24_WitnessOutermost ==
    phase = "done" /\ remaining = 0

\* a for loop whose pre block is not empty, or an assignment without value
Malformed(s) ==
    \/ s.kind = "ForLoop" /\ s.pre # <<>>
    \/ s.kind = "Assignment" /\ s.expr = NoExpr

\* C25: the visit of a for loop whose pre block is not empty, or of an
\* assignment without a right-hand expression, ends in a fatal error (no
\* such visit completes), and the step that raises the error leaves value,
\* references, referencedBy and storage as they were.
C25_FatalError ==
    [][/\ \A i \in DOMAIN log' : log'[i].at = "Statement" => ~Malformed(log'[i].node)
       /\ (failed' /\ ~failed) =>
             /\ \E i \in DOMAIN log' : log'[i].at = "Throw" /\ Malformed(log'[i].node)
             /\ UNCHANGED <<m_value, m_references, m_referencedBy, m_storage>>]_vars

\* The visit of an assignment without value has raised the error where
\* values, references and storage entries were known.
C25_Witness ==
    /\ failed
    /\ \E e \in Entries("Throw") : e.node.kind = "Assignment"
    /\ m_value # EmptyMap
    /\ m_storage.values # EmptyMap
    /\ \E x \in Vars : Get(m_references, x) # {}

\* The visit of a for loop with a pre block has raised the error where
\* values and storage entries were known.
C25_WitnessForLoop ==
    /\ failed
    /\ \E e \in Entries("Throw") : e.node.kind = "ForLoop"
    /\ m_value # EmptyMap
    /\ m_storage.values # EmptyMap
====
